---- MODULE Spec2Model ----
(***************************************************************************)
(* GhostChatApp: the ephemeral store (backend/redis_manager.py), the       *)
(* proof-of-work gate (backend/proof_of_work.py) and the connection        *)
(* registry (backend/websocket_manager.py, backend/main.py).               *)
(*                                                                         *)
(* The store is one record `store` whose fields are the Redis key          *)
(* families; every Redis command is a pure operator on that record, and    *)
(* every method of RedisManager is the composition of its commands in      *)
(* source order.  A key's TTL is kept as membership in a *_ttl field: a    *)
(* key that carries a TTL may be removed by an Expire action at any later  *)
(* time, a key without one never is.                                       *)
(***************************************************************************)
EXTENDS Integers, Sequences, FiniteSets, TLC

VARIABLES
    store,          \* the Redis key space
    last,           \* history: the last store operation and what it returned
    trail,          \* history: per room, the operations since its creation
    createdPublic,  \* history: ids of rooms created with is_public = True
    createdDirect,  \* history: ids returned by create_private_room, per pair
    opCount,        \* history: number of store operations so far
    task,           \* per ghost, the store method its task is inside and its locals
    pow,            \* ProofOfWorkManager: difficulty and the challenge table
    now,            \* int(time.time())
    issued,         \* history: number of challenge ids drawn so far
    accepted,       \* history: per challenge id, the nonces verify accepted
    powLast,        \* history: the last proof-of-work call and its outcome
    rejected,       \* history: challenge ids with a verify rejected as invalid or mismatch
    ws,             \* WebSocketManager: active_connections, ghost_rooms, heartbeat_tasks
    sock,           \* per WebSocket: the ghost of its URL and whether it is open
    hb,             \* per heartbeat task (named after the socket whose connect made it)
    handler,        \* per WebSocket: where websocket_endpoint is
    connLast,       \* history: the last connect that completed
    hist,           \* history: per socket, what its connect and the ghost's last disconnect saw
    flight,         \* per WebSocket: the request its handler has received and the
                    \* room lists its tasks copied when they entered disconnect
    sess,           \* history: the last request handled or disconnect run, and its effects
    engine          \* DestructionEngine: where its cleanup cycle is, and what it ran

storeVars == <<store, last, trail, createdPublic, createdDirect, opCount>>

powVars == <<pow, now, issued, accepted, powLast, rejected>>

connVars == <<ws, sock, hb, handler, connLast, hist>>

sessVars == <<flight, sess>>

vars == <<storeVars, task, powVars, connVars, sessVars, engine>>

\* what the actions of each specification leave alone
notStore == <<task, powVars, connVars, sessVars, engine>>

notRace == <<powVars, connVars, sessVars, engine>>

notPow == <<store, last, trail, createdPublic, createdDirect, task, connVars, sessVars,
           engine>>

notConn == <<last, trail, createdPublic, createdDirect, task, powVars, sessVars, engine>>

notSess == <<last, trail, createdPublic, createdDirect, task, powVars, connLast, hist,
            engine>>

notPurge == <<trail, createdPublic, createdDirect, task, powVars, connVars, sessVars>>

(***************************************************************************)
(* Bounds of the model.                                                    *)
(***************************************************************************)
MaxOps == 6
MaxTaskOps == 4
MaxPowOps == 3
MaxNonce == 3
MaxSockets == 2
MaxConnOps == 11
MaxSweepIssued == 1

Ghosts == {1, 2}

(***************************************************************************)
(* Room ids.  create_room draws a fresh random id; create_private_room     *)
(* derives the id from the sorted pair of ghost ids.                       *)
(***************************************************************************)
RoomNames == {1, 2}
CreatedIds == {<<"room", k, 0>> : k \in RoomNames}

\* a variant that keeps the argument order
sorted_ids_unsorted(ghost1_id, ghost2_id) == <<ghost1_id, ghost2_id>>

sorted_ids(ghost1_id, ghost2_id) ==
    IF ghost1_id <= ghost2_id THEN <<ghost1_id, ghost2_id>>
                              ELSE <<ghost2_id, ghost1_id>>

DmRoomId(ghost1_id, ghost2_id) ==
    LET s == sorted_ids(ghost1_id, ghost2_id) IN <<"dm", s[1], s[2]>>

DmIds == {<<"dm", p[1], p[2]>> : p \in {q \in Ghosts \X Ghosts : q[1] # q[2]}}

NoId == <<"none", 0, 0>>

RoomIds == CreatedIds \cup DmIds

(***************************************************************************)
(* Redis commands on the key space.                                        *)
(***************************************************************************)
Put(f, k, v) == [x \in (DOMAIN f) \cup {k} |-> IF x = k THEN v ELSE f[x]]

Drop(f, k) == [x \in (DOMAIN f) \ {k} |-> f[x]]

\* SET rooms:{r}: writes the value and clears any TTL of the key
redis_set_room(s, r, data) ==
    [s EXCEPT !.rooms = Put(@, r, data), !.rooms_ttl = @ \ {r}]

\* SETEX rooms:{r} ROOM_TTL: writes the value with a TTL
redis_setex_room(s, r, data) ==
    [s EXCEPT !.rooms = Put(@, r, data), !.rooms_ttl = @ \cup {r}]

\* SADD room_members:{r}: a set key created by SADD carries no TTL
redis_sadd_members(s, r, g) ==
    [s EXCEPT !.room_members[r] = @ \cup {g}]

\* SREM room_members:{r}: removing the last element removes the key
redis_srem_members(s, r, g) ==
    [s EXCEPT !.room_members[r] = @ \ {g},
              !.members_ttl = IF s.room_members[r] \ {g} = {} THEN @ \ {r} ELSE @]

\* EXPIRE room_members:{r} ROOM_TTL: no effect on a key that does not exist
redis_expire_members(s, r) ==
    IF s.room_members[r] = {} THEN s
    ELSE [s EXCEPT !.members_ttl = @ \cup {r}]

redis_scard_members(s, r) == Cardinality(s.room_members[r])

redis_sadd_all_rooms(s, r) == [s EXCEPT !.all_rooms = @ \cup {r}]

redis_expire_all_rooms(s) ==
    IF s.all_rooms = {} THEN s ELSE [s EXCEPT !.all_rooms_ttl = TRUE]

redis_srem_all_rooms(s, r) ==
    [s EXCEPT !.all_rooms = @ \ {r},
              !.all_rooms_ttl = IF s.all_rooms \ {r} = {} THEN FALSE ELSE @]

redis_sadd_private_rooms(s, r) == [s EXCEPT !.private_rooms = @ \cup {r}]

redis_del_room(s, r) ==
    [s EXCEPT !.rooms = Drop(@, r), !.rooms_ttl = @ \ {r}]

redis_del_members(s, r) ==
    [s EXCEPT !.room_members[r] = {}, !.members_ttl = @ \ {r}]

(***************************************************************************)
(* RedisManager methods, each the composition of its commands.             *)
(***************************************************************************)
RoomData(r, is_public, is_private, room_type, participants) ==
    [id |-> r, participant_count |-> 0, is_public |-> is_public,
     is_private |-> is_private, room_type |-> room_type,
     participants |-> participants]

create_room(s, r, is_public) ==
    LET room_data == RoomData(r, is_public, FALSE, "room", <<>>)
        s1 == IF is_public THEN redis_set_room(s, r, room_data)
                           ELSE redis_setex_room(s, r, room_data)
        s2 == redis_sadd_all_rooms(s1, r)
    IN  redis_expire_all_rooms(s2)

create_private_room(s, ghost1_id, ghost2_id) ==
    LET room_id == DmRoomId(ghost1_id, ghost2_id)
        room_data == RoomData(room_id, FALSE, TRUE, "private_message",
                              sorted_ids(ghost1_id, ghost2_id))
        s1 == redis_set_room(s, room_id, room_data)
        s2 == redis_sadd_private_rooms(s1, room_id)
        s3 == redis_sadd_members(s2, room_id, ghost1_id)
        s4 == redis_sadd_members(s3, room_id, ghost2_id)
    IN  IF room_id \in DOMAIN s.rooms THEN s
        ELSE redis_expire_members(s4, room_id)

\* the room record create_private_room returns
create_private_room_result(s, ghost1_id, ghost2_id) ==
    LET room_id == DmRoomId(ghost1_id, ghost2_id)
    IN  IF room_id \in DOMAIN s.rooms THEN s.rooms[room_id]
        ELSE RoomData(room_id, FALSE, TRUE, "private_message",
                      sorted_ids(ghost1_id, ghost2_id))

\* a variant that adds one to the stored count instead of reading scard
join_room_increment(s, ghost_id, room_id) ==
    LET s1 == redis_sadd_members(s, room_id, ghost_id)
        s2 == redis_expire_members(s1, room_id)
    IN  IF room_id \in DOMAIN s2.rooms
        THEN redis_setex_room(s2, room_id,
                 [s2.rooms[room_id] EXCEPT !.participant_count = @ + 1])
        ELSE s2

join_room(s, ghost_id, room_id) ==
    LET s1 == redis_sadd_members(s, room_id, ghost_id)
        s2 == redis_expire_members(s1, room_id)
        participant_count == redis_scard_members(s2, room_id)
    IN  IF room_id \in DOMAIN s2.rooms
        THEN redis_setex_room(s2, room_id,
                 [s2.rooms[room_id] EXCEPT !.participant_count = participant_count])
        ELSE s2

\* DEL room_messages:{r} and every messages:{r}:* key
redis_del_messages(s, r) ==
    [s EXCEPT !.room_messages[r] = <<>>,
              !.messages = {m \in @ : m.room_id # r}]

\* one pipeline: the room record, its membership set, its messages and its
\* all_rooms entry
delete_room(s, room_id) ==
    redis_srem_all_rooms(
        redis_del_messages(
            redis_del_members(redis_del_room(s, room_id), room_id), room_id),
        room_id)

\* a variant without the delete_room branch
leave_room_never_deletes(s, ghost_id, room_id) ==
    LET s1 == redis_srem_members(s, room_id, ghost_id)
        participant_count == redis_scard_members(s1, room_id)
    IN  IF room_id \in DOMAIN s1.rooms
        THEN LET room_data == [s1.rooms[room_id] EXCEPT
                                   !.participant_count = participant_count]
             IN  IF room_data.is_public
                 THEN redis_set_room(s1, room_id, room_data)
                 ELSE redis_setex_room(s1, room_id, room_data)
        ELSE s1

leave_room(s, ghost_id, room_id) ==
    LET s1 == redis_srem_members(s, room_id, ghost_id)
        participant_count == redis_scard_members(s1, room_id)
    IN  IF room_id \in DOMAIN s1.rooms
        THEN LET room_data == [s1.rooms[room_id] EXCEPT
                                   !.participant_count = participant_count]
             IN  IF participant_count = 0 /\ ~room_data.is_public
                 THEN delete_room(s1, room_id)
                 ELSE IF room_data.is_public
                      THEN redis_set_room(s1, room_id, room_data)
                      ELSE redis_setex_room(s1, room_id, room_data)
        ELSE s1

\* a session record; last_activity counts the writes of the timestamp, lease
\* is "full" when SETEX has just given the key SESSION_TTL seconds and "part"
\* once some of them have passed
create_ghost_session(s, ghost_id) ==
    [s EXCEPT !.users = Put(@, ghost_id, [active |-> TRUE, last_activity |-> 0,
                                          lease |-> "full"]),
              !.active_users = @ \cup {ghost_id}]

update_ghost_activity(s, ghost_id) ==
    IF ghost_id \in DOMAIN s.users
    THEN [s EXCEPT !.users[ghost_id].last_activity = @ + 1,
                   !.users[ghost_id].lease = "full"]
    ELSE s

get_ghost_session(s, ghost_id) == ghost_id \in DOMAIN s.users

\* message_id is the fresh id send_message builds from the clock and a token
send_message(s, message_id, ghost_id, room_id) ==
    LET message_data == [id |-> message_id, sender |-> ghost_id, room_id |-> room_id]
        s1 == [s EXCEPT !.messages = @ \cup {message_data},
                        !.room_messages[room_id] = <<message_id>> \o @]
    IN  update_ghost_activity(s1, ghost_id)

add_message_reaction(s, message_id, ghost_id, emoji) ==
    [s EXCEPT !.reactions = @ \cup {<<message_id, emoji, ghost_id>>},
              !.reaction_names = @ \cup {<<message_id, emoji, ghost_id>>}]

\* the members of reactions:{message_id}:{emoji}
reactors(s, message_id, emoji) ==
    {g \in Ghosts : <<message_id, emoji, g>> \in s.reactions}

\* the fields of reaction_names:{message_id}:{emoji}
display_names(s, message_id, emoji) ==
    {g \in Ghosts : <<message_id, emoji, g>> \in s.reaction_names}

\* a variant that leaves the display-name hash alone
remove_message_reaction_keeps_names(s, message_id, ghost_id, emoji) ==
    [s EXCEPT !.reactions = @ \ {<<message_id, emoji, ghost_id>>}]

\* SREM and HDEL, then DEL of both keys when the set is empty
remove_message_reaction(s, message_id, ghost_id, emoji) ==
    LET s1 == [s EXCEPT !.reactions = @ \ {<<message_id, emoji, ghost_id>>},
                        !.reaction_names = @ \ {<<message_id, emoji, ghost_id>>}]
    IN  IF reactors(s1, message_id, emoji) = {}
        THEN [s1 EXCEPT !.reaction_names =
                 {t \in @ : ~(t[1] = message_id /\ t[2] = emoji)}]
        ELSE s1

\* the emojis get_message_reactions returns an entry for
get_message_reactions(s, message_id) ==
    {t[2] : t \in {u \in s.reactions : u[1] = message_id}}

\* the ids of the messages get_room_messages returns: those of the list
\* whose key still exists
get_room_messages(s, room_id) ==
    {s.room_messages[room_id][i] : i \in
        {j \in DOMAIN s.room_messages[room_id] :
            \E m \in s.messages : /\ m.id = s.room_messages[room_id][j]
                                   /\ m.room_id = room_id}}

\* KEYS *{ghost_id}*: a room id holds a ghost id when it is the id of a
\* direct room of that ghost
names_ghost(room_id, ghost_id) ==
    room_id[1] = "dm" /\ ghost_id \in {room_id[2], room_id[3]}

\* one pipeline: SREM on every reaction set, HDEL on every display-name
\* hash, DEL of every key whose name holds the ghost id (users:{g} and the
\* rooms:, room_members:, room_messages: and messages: keys of its direct
\* rooms), SREM active_users, SREM on the membership set of every room of
\* all_rooms
delete_ghost_data(s, ghost_id) ==
    LET ghost_keys == {r \in RoomIds : names_ghost(r, ghost_id)}
    IN  [s EXCEPT
            !.reactions = {t \in @ : t[3] # ghost_id},
            !.reaction_names = {t \in @ : t[3] # ghost_id},
            !.users = [g \in (DOMAIN @) \ {ghost_id} |-> @[g]],
            !.rooms = [r \in (DOMAIN @) \ ghost_keys |-> @[r]],
            !.rooms_ttl = @ \ ghost_keys,
            !.room_messages = [r \in DOMAIN @ |->
                                  IF r \in ghost_keys THEN <<>> ELSE @[r]],
            !.messages = {m \in @ : m.room_id \notin ghost_keys},
            !.active_users = @ \ {ghost_id},
            !.room_members = [r \in DOMAIN @ |->
                                 IF r \in ghost_keys THEN {}
                                 ELSE IF r \in s.all_rooms THEN @[r] \ {ghost_id}
                                 ELSE @[r]],
            !.members_ttl = {r \in @ : /\ r \notin ghost_keys
                                        /\ ~(r \in s.all_rooms
                                             /\ s.room_members[r] \ {ghost_id} = {})}]

(***************************************************************************)
(* ProofOfWorkManager.  A challenge id and its random_data are drawn by    *)
(* secrets.token_hex: the id is fresh, the random_data any seed.  The      *)
(* digest of random_data + nonce is a string of hex digits; only its       *)
(* leading zero digits are read by verify_solution.                        *)
(***************************************************************************)
DefaultDifficulty == 4
DefaultTtl == 300
MinDifficulty == 1
MaxDifficulty == 8
AdaptiveFloor == 2
AdaptiveCeiling == 6
HighActivity == 10
MediumActivity == 5
HashLen == 8

Seeds == {0, 1}

NoNonce == 0 - 1

Nonces == 0..MaxNonce

Min(a, b) == IF a <= b THEN a ELSE b

Max(a, b) == IF a >= b THEN a ELSE b

\* hashlib.sha256(f"{random_data}{nonce}".encode()).hexdigest(): a fixed
\* function of seed and nonce onto digit strings; here the first
\* (seed + nonce) % (HashLen + 1) digits are zero and the next one is not
Sha256Hex(random_data, nonce) ==
    LET z == (random_data + nonce) % (HashLen + 1)
    IN  [i \in 1..HashLen |-> IF i <= z THEN 0 ELSE 1 + ((random_data + nonce + i) % 15)]

\* hash_result.startswith("0" * n)
StartsWithZeros(hash_result, n) ==
    /\ n <= Len(hash_result)
    /\ \A i \in 1..n : hash_result[i] = 0

LeadingZeros(hash_result) ==
    Cardinality({n \in 1..Len(hash_result) : StartsWithZeros(hash_result, n)})

ChallengeData(ghost_id, random_data, difficulty, timestamp, adaptive) ==
    [ghost_id |-> ghost_id, random_data |-> random_data,
     difficulty |-> difficulty, expires_at |-> timestamp + DefaultTtl,
     adaptive |-> adaptive]

generate_challenge(p, challenge_id, ghost_id, random_data, timestamp) ==
    [p EXCEPT !.challenges =
        Put(@, challenge_id,
            ChallengeData(ghost_id, random_data, p.difficulty, timestamp, FALSE))]

adaptive_difficulty(difficulty, recent_activity) ==
    IF recent_activity > HighActivity THEN Min(difficulty + 1, AdaptiveCeiling)
    ELSE IF recent_activity > MediumActivity THEN difficulty
    ELSE Max(difficulty - 1, AdaptiveFloor)

create_adaptive_challenge(p, challenge_id, ghost_id, random_data, timestamp, recent_activity) ==
    [p EXCEPT !.challenges =
        Put(@, challenge_id,
            ChallengeData(ghost_id, random_data,
                          adaptive_difficulty(p.difficulty, recent_activity),
                          timestamp, TRUE))]

\* which return of verify_solution is taken
verify_outcome(p, ghost_id, challenge_id, nonce, current_time) ==
    IF challenge_id = 0 \/ nonce = NoNonce THEN "format"
    ELSE IF challenge_id \notin DOMAIN p.challenges THEN "not_found"
    ELSE IF p.challenges[challenge_id].ghost_id # ghost_id THEN "mismatch"
    ELSE IF current_time > p.challenges[challenge_id].expires_at THEN "expired"
    ELSE IF StartsWithZeros(
                Sha256Hex(p.challenges[challenge_id].random_data, nonce),
                p.difficulty)
         THEN "valid"
         ELSE "invalid"

\* a variant that leaves a solved challenge in the table
verify_solution_keeps_challenge(p, ghost_id, challenge_id, nonce, current_time) ==
    LET outcome == verify_outcome(p, ghost_id, challenge_id, nonce, current_time)
    IN  IF outcome = "expired"
        THEN [p EXCEPT !.challenges = Drop(@, challenge_id)]
        ELSE p

\* a variant that also removes the challenge when the nonce misses the target
verify_solution_consumes_on_reject(p, ghost_id, challenge_id, nonce, current_time) ==
    LET outcome == verify_outcome(p, ghost_id, challenge_id, nonce, current_time)
    IN  IF outcome \in {"expired", "valid", "invalid"}
        THEN [p EXCEPT !.challenges = Drop(@, challenge_id)]
        ELSE p

\* the challenge table after verify_solution
verify_solution(p, ghost_id, challenge_id, nonce, current_time) ==
    LET outcome == verify_outcome(p, ghost_id, challenge_id, nonce, current_time)
    IN  IF outcome \in {"expired", "valid"}
        THEN [p EXCEPT !.challenges = Drop(@, challenge_id)]
        ELSE p

adjust_difficulty(p, new_difficulty) ==
    IF MinDifficulty <= new_difficulty /\ new_difficulty <= MaxDifficulty
    THEN [p EXCEPT !.difficulty = new_difficulty]
    ELSE p

\* a variant whose pass removes every challenge, expired or not
cleanup_every_challenge(p, current_time) == [p EXCEPT !.challenges = <<>>]

\* one pass of the loop of _cleanup_expired_challenges
cleanup_expired_challenges(p, current_time) ==
    LET expired_challenges ==
            {c \in DOMAIN p.challenges : current_time > p.challenges[c].expires_at}
    IN  [p EXCEPT !.challenges =
            [c \in (DOMAIN @) \ expired_challenges |-> @[c]]]

(***************************************************************************)
(* The connection registry (websocket_manager.py).  The methods below act  *)
(* on a context c = [store, ws, sock, hb, out, calls, store_down] and run  *)
(* to completion; a send on a socket that is not open raises, which        *)
(* _send_personal_message turns into disconnect.  Sets are walked in the   *)
(* order SeqOf gives them.  out lists the envelopes delivered during the   *)
(* call, calls the RedisManager methods it invoked for room membership;    *)
(* store_down makes the store calls of disconnect raise.                   *)
(***************************************************************************)
Sockets == 1..MaxSockets

NoSocket == 0

RECURSIVE SeqOf(_)
SeqOf(S) ==
    IF S = {} THEN <<>>
    ELSE LET x == CHOOSE y \in S : TRUE IN <<x>> \o SeqOf(S \ {x})

get_user_rooms(s, ghost_id) ==
    {r \in s.all_rooms \cup s.private_rooms : ghost_id \in s.room_members[r]}

websocket_close(c, t) == [c EXCEPT !.sock[t].state = "closed"]

\* a task that has not finished ends at its next await
task_cancel(c, k) ==
    [c EXCEPT !.hb[k] = IF @ \in {"running", "disconnecting"} THEN "cancelled" ELSE @]

cached_rooms(c, ghost_id) ==
    IF ghost_id \in DOMAIN c.ws.ghost_rooms THEN c.ws.ghost_rooms[ghost_id] ELSE {}

RECURSIVE disconnect(_, _)
RECURSIVE disconnect_from(_, _, _)
RECURSIVE _send_personal_message(_, _, _)
RECURSIVE _broadcast_to_room(_, _, _, _)
RECURSIVE _leave_room(_, _, _)
RECURSIVE leave_each(_, _, _)

\* a variant that logs the failure of the send and leaves the ghost registered
_send_personal_message_ignoring(c, ghost_id, message) ==
    IF ghost_id \notin DOMAIN c.ws.active_connections THEN c
    ELSE IF c.sock[c.ws.active_connections[ghost_id]].state = "open"
    THEN [c EXCEPT !.out = Append(@, [to |-> ghost_id, type |-> message])]
    ELSE c

_send_personal_message(c, ghost_id, message) ==
    IF ghost_id \notin DOMAIN c.ws.active_connections THEN c
    ELSE IF c.sock[c.ws.active_connections[ghost_id]].state = "open"
    THEN [c EXCEPT !.out = Append(@, [to |-> ghost_id, type |-> message])]
    ELSE disconnect(c, ghost_id)

_send_error(c, ghost_id) == _send_personal_message(c, ghost_id, "error")

RECURSIVE _broadcast_to_room_until_failure(_, _, _, _)
\* a variant whose loop ends at the first send that fails
_broadcast_to_room_until_failure(c, room_members, message, exclude_ghost) ==
    IF room_members = <<>> THEN c
    ELSE LET member_ghost_id == Head(room_members)
         IN  IF /\ member_ghost_id # exclude_ghost
                /\ member_ghost_id \in DOMAIN c.ws.active_connections
             THEN IF c.sock[c.ws.active_connections[member_ghost_id]].state = "open"
                  THEN _broadcast_to_room_until_failure(
                           _send_personal_message(c, member_ghost_id, message),
                           Tail(room_members), message, exclude_ghost)
                  ELSE disconnect(c, member_ghost_id)
             ELSE _broadcast_to_room_until_failure(c, Tail(room_members), message,
                                                   exclude_ghost)

\* room_members is the list get_room_members returned before the loop
_broadcast_to_room(c, room_members, message, exclude_ghost) ==
    IF room_members = <<>> THEN c
    ELSE LET member_ghost_id == Head(room_members)
             c1 == IF /\ member_ghost_id # exclude_ghost
                      /\ member_ghost_id \in DOMAIN c.ws.active_connections
                   THEN _send_personal_message(c, member_ghost_id, message)
                   ELSE c
         IN  _broadcast_to_room(c1, Tail(room_members), message, exclude_ghost)

_leave_room(c, ghost_id, room_id) ==
    LET c1 == [c EXCEPT !.store = leave_room(@, ghost_id, room_id),
                        !.calls = Append(@, <<"leave_room", ghost_id, room_id>>)]
        c2 == IF ghost_id \in DOMAIN c1.ws.ghost_rooms
              THEN [c1 EXCEPT !.ws.ghost_rooms[ghost_id] = @ \ {room_id}]
              ELSE c1
        c3 == _send_personal_message(c2, ghost_id, "room_left")
    IN  _broadcast_to_room(c3, SeqOf(c3.store.room_members[room_id]),
                           "ghost_left", ghost_id)

leave_each(c, ghost_id, room_ids) ==
    IF room_ids = <<>> THEN c
    ELSE leave_each(_leave_room(c, ghost_id, Head(room_ids)), ghost_id, Tail(room_ids))

\* a variant that cancels the task and keeps its entry
drop_heartbeat_keeps_entry(c, ghost_id) ==
    IF ghost_id \in DOMAIN c.ws.heartbeat_tasks
    THEN task_cancel(c, c.ws.heartbeat_tasks[ghost_id])
    ELSE c

drop_heartbeat(c, ghost_id) ==
    IF ghost_id \in DOMAIN c.ws.heartbeat_tasks
    THEN [task_cancel(c, c.ws.heartbeat_tasks[ghost_id])
             EXCEPT !.ws.heartbeat_tasks = Drop(@, ghost_id)]
    ELSE c

\* disconnect from its try block on; room_ids is the copy of the cached rooms
disconnect_from(c, ghost_id, room_ids) ==
    IF c.store_down /\ room_ids # <<>>
    THEN \* leave_room raises: the except branch pops the maps, cancels the task
         [drop_heartbeat(c, ghost_id)
             EXCEPT !.ws.active_connections = Drop(@, ghost_id),
                    !.ws.ghost_rooms = Drop(@, ghost_id)]
    ELSE LET c1 == leave_each(c, ghost_id, room_ids)
             c2 == drop_heartbeat(c1, ghost_id)
         IN  IF ghost_id \notin DOMAIN c2.ws.active_connections
             THEN \* KeyError at the lookup: the except branch pops what is left
                  [c2 EXCEPT !.ws.ghost_rooms = Drop(@, ghost_id)]
             ELSE LET websocket == c2.ws.active_connections[ghost_id]
                      c3 == IF c2.sock[websocket].state = "open"
                            THEN websocket_close(c2, websocket)
                            ELSE c2
                  IN  [c3 EXCEPT !.ws.active_connections = Drop(@, ghost_id),
                                 !.ws.ghost_rooms = Drop(@, ghost_id)]

disconnect(c, ghost_id) ==
    IF ghost_id \notin DOMAIN c.ws.active_connections THEN c
    ELSE disconnect_from(c, ghost_id, SeqOf(cached_rooms(c, ghost_id)))

RECURSIVE switch_rooms(_, _, _, _)
\* the loop of _handle_join_room over a copy of the cached rooms
switch_rooms(c, ghost_id, current_rooms, room_id) ==
    IF current_rooms = <<>> THEN c
    ELSE LET current_room_id == Head(current_rooms)
             c1 == IF current_room_id # room_id
                   THEN [c EXCEPT !.store = leave_room(@, ghost_id, current_room_id),
                                  !.calls = Append(@, <<"leave_room", ghost_id,
                                                        current_room_id>>),
                                  !.ws.ghost_rooms[ghost_id] = @ \ {current_room_id}]
                   ELSE c
         IN  switch_rooms(c1, ghost_id, Tail(current_rooms), room_id)

\* lines 155-156: the cache entry of the ghost exists from here on
ensure_ghost_rooms(c, ghost_id) ==
    IF ghost_id \notin DOMAIN c.ws.ghost_rooms
    THEN [c EXCEPT !.ws.ghost_rooms = Put(@, ghost_id, {})]
    ELSE c

\* _handle_join_room from its first await on; current_rooms is the copy of
\* line 159.  When the cache entry is gone by then, the first store call is
\* followed by a KeyError, which handle_message answers with an error.
_handle_join_room_from(c, ghost_id, current_rooms, room_id) ==
    IF ghost_id \notin DOMAIN c.ws.ghost_rooms
    THEN LET others == SelectSeq(current_rooms, LAMBDA r : r # room_id)
             c1 == IF others # <<>>
                   THEN [c EXCEPT !.store = leave_room(@, ghost_id, Head(others)),
                                  !.calls = Append(@, <<"leave_room", ghost_id,
                                                        Head(others)>>)]
                   ELSE [c EXCEPT !.store = join_room(@, ghost_id, room_id),
                                  !.calls = Append(@, <<"join_room", ghost_id,
                                                        room_id>>)]
         IN  _send_error(c1, ghost_id)
    ELSE
    LET c1 == switch_rooms(c, ghost_id, current_rooms, room_id)
        c2 == [c1 EXCEPT !.store = join_room(@, ghost_id, room_id),
                         !.calls = Append(@, <<"join_room", ghost_id, room_id>>),
                         !.ws.ghost_rooms[ghost_id] = @ \cup {room_id}]
        c3 == _send_personal_message(c2, ghost_id, "room_joined")
    IN  _broadcast_to_room(c3, SeqOf(c3.store.room_members[room_id]),
                           "ghost_joined", ghost_id)

_handle_join_room(c, ghost_id, room_id) ==
    LET c0 == ensure_ghost_rooms(c, ghost_id)
    IN  _handle_join_room_from(c0, ghost_id, SeqOf(c0.ws.ghost_rooms[ghost_id]),
                               room_id)

_handle_leave_room(c, ghost_id, room_id) == _leave_room(c, ghost_id, room_id)

\* no ghost: the exclude_ghost of a broadcast that excludes nobody
NoGhost == 0

Emoji == "thumbs_up"

\* a variant without the check of the cached rooms
_handle_send_message_unchecked(c, ghost_id, room_id, message_id) ==
    LET c1 == [c EXCEPT !.store = send_message(@, message_id, ghost_id, room_id)]
    IN  _broadcast_to_room(c1, SeqOf(c1.store.room_members[room_id]),
                           "new_message", NoGhost)

\* room_id and a valid content are present; message_id is the id send_message draws
_handle_send_message(c, ghost_id, room_id, message_id) ==
    IF room_id \notin cached_rooms(c, ghost_id)
    THEN _send_error(c, ghost_id)
    ELSE LET c1 == [c EXCEPT !.store = send_message(@, message_id, ghost_id, room_id)]
         IN  _broadcast_to_room(c1, SeqOf(c1.store.room_members[room_id]),
                                "new_message", NoGhost)

_handle_add_reaction(c, ghost_id, room_id, message_id, emoji) ==
    IF room_id \notin cached_rooms(c, ghost_id)
    THEN _send_error(c, ghost_id)
    ELSE LET c1 == [c EXCEPT !.store =
                        add_message_reaction(@, message_id, ghost_id, emoji)]
         IN  _broadcast_to_room(c1, SeqOf(c1.store.room_members[room_id]),
                                "message_reaction", NoGhost)

_handle_remove_reaction(c, ghost_id, room_id, message_id, emoji) ==
    IF room_id \notin cached_rooms(c, ghost_id)
    THEN _send_error(c, ghost_id)
    ELSE LET c1 == [c EXCEPT !.store =
                        remove_message_reaction(@, message_id, ghost_id, emoji)]
         IN  _broadcast_to_room(c1, SeqOf(c1.store.room_members[room_id]),
                                "message_reaction", NoGhost)

\* the store commands of a handled send_message, in order: SETEX of the
\* message, LPUSH and EXPIRE of the room's list, GET and SETEX of the session
\* (update_ghost_activity), GET of the session, SMEMBERS of the room
FailPoints == 1..7

\* the store when command fail_at of them has raised
send_message_until(s, message_id, ghost_id, room_id, fail_at) ==
    LET message_data == [id |-> message_id, sender |-> ghost_id, room_id |-> room_id]
        s1 == [s EXCEPT !.messages = @ \cup {message_data}]
        s2 == [s1 EXCEPT !.room_messages[room_id] = <<message_id>> \o @]
    IN  IF fail_at = 1 THEN s
        ELSE IF fail_at = 2 THEN s1
        ELSE IF fail_at <= 5 THEN s2
        ELSE send_message(s, message_id, ghost_id, room_id)

\* a variant that goes on to the broadcast after the store has raised
_handle_send_message_swallowing(c, ghost_id, room_id, message_id, fail_at) ==
    IF room_id \notin cached_rooms(c, ghost_id)
    THEN _send_error(c, ghost_id)
    ELSE LET c1 == [c EXCEPT !.store = send_message_until(@, message_id, ghost_id,
                                                          room_id, fail_at)]
         IN  _broadcast_to_room(c1, SeqOf(c1.store.room_members[room_id]),
                                "new_message", NoGhost)

\* _handle_send_message when a store command raises: the exception reaches
\* the except branch of handle_message
_handle_send_message_raising(c, ghost_id, room_id, message_id, fail_at) ==
    IF room_id \notin cached_rooms(c, ghost_id)
    THEN _send_error(c, ghost_id)
    ELSE _send_error([c EXCEPT !.store = send_message_until(@, message_id, ghost_id,
                                                            room_id, fail_at)],
                     ghost_id)

\* room_id is the fresh id create_room draws; the room is public by default
_handle_create_room(c, ghost_id, room_id) ==
    _send_personal_message([c EXCEPT !.store = create_room(@, room_id, TRUE)],
                           ghost_id, "room_created")

_handle_ping(c, ghost_id) ==
    _send_personal_message([c EXCEPT !.store = update_ghost_activity(@, ghost_id)],
                           ghost_id, "pong")

\* the else branch of handle_message: a warning is logged
handle_message_unknown(c, ghost_id) == c

\* one pass of _heartbeat_loop whose send succeeds
heartbeat_pass(c, ghost_id) ==
    [c EXCEPT !.out = Append(@, [to |-> ghost_id, type |-> "heartbeat"]),
              !.store = update_ghost_activity(@, ghost_id)]

(***************************************************************************)
(* The store on its own: the RedisManager methods called one at a time,    *)
(* each running to completion, and the expiry of keys that carry a TTL.    *)
(***************************************************************************)
NoData == [id |-> NoId, participant_count |-> 0, is_public |-> FALSE,
           is_private |-> FALSE, room_type |-> "none", participants |-> <<>>]

IdleTask == [pc |-> "idle", room |-> NoId, other |-> 0,
             participant_count |-> 0, room_data |-> NoData]

(***************************************************************************)
(* DestructionEngine (destruction_engine.py).  A cleanup cycle runs        *)
(* cleanup_expired_data and the three sub-steps (a) orphaned room          *)
(* references, (b) empty rooms, (c) orphaned reactions inside one try      *)
(* block; only (c) has a try block of its own.                             *)
(***************************************************************************)
\* SREM all_rooms of every listed id
redis_srem_all_rooms_each(s, room_ids) ==
    [s EXCEPT !.all_rooms = @ \ room_ids,
              !.all_rooms_ttl = IF s.all_rooms \ room_ids = {} THEN FALSE ELSE @]

cleanup_expired_data(s) ==
    redis_srem_all_rooms_each(s, {r \in s.all_rooms : r \notin DOMAIN s.rooms})

_cleanup_orphaned_rooms(s) ==
    LET rooms_to_remove == {r \in s.all_rooms : r \notin DOMAIN s.rooms}
    IN  redis_srem_all_rooms_each(s, rooms_to_remove)

\* a variant that deletes every empty room, whatever its record says
room_is_kept_when_occupied(s, room_id) == redis_scard_members(s, room_id) # 0

\* the branch of _cleanup_empty_sets for one room: continue, or delete_room
room_is_kept(s, room_id) ==
    \/ redis_scard_members(s, room_id) # 0
    \/ /\ room_id \in DOMAIN s.rooms
       /\ (s.rooms[room_id].is_public \/ s.rooms[room_id].is_private)

RECURSIVE cleanup_each(_, _)
\* the loop of _cleanup_empty_sets over the ids SMEMBERS all_rooms returned
cleanup_each(s, all_rooms) ==
    IF all_rooms = <<>> THEN s
    ELSE cleanup_each(IF room_is_kept(s, Head(all_rooms)) THEN s
                      ELSE delete_room(s, Head(all_rooms)),
                      Tail(all_rooms))

_cleanup_empty_sets(s) == cleanup_each(s, SeqOf(s.all_rooms))

\* KEYS messages:*:{message_id} is empty
message_is_gone(s, message_id) == ~\E m \in s.messages : m.id = message_id

_cleanup_orphaned_reactions(s) ==
    [s EXCEPT !.reactions = {t \in @ : ~message_is_gone(s, t[1])},
              !.reaction_names = {t \in @ : ~message_is_gone(s, t[1])}]

\* the cleanup task is between two cycles
\* a variant in which the exception of a sub-step leaves _perform_cleanup and
\* start_cleanup_task
_perform_cleanup_raising(e, at) ==
    [e EXCEPT !.at = "sleep", !.failed = at,
              !.task = IF @ = "alive" THEN "crashed" ELSE @]

\* the except branch of _perform_cleanup: the exception of the sub-step at is
\* logged and the cycle is over
_perform_cleanup_except(e, at) == [e EXCEPT !.at = "sleep", !.failed = at]

\* running is self.running; task is the task of start_cleanup_task; turn
\* tells one cycle of the task from the next
EngineStart ==
    engine = [at |-> "sleep", ran |-> {}, failed |-> "none", running |-> FALSE,
              task |-> "none", turn |-> 0]

EmptyStore ==
    [rooms |-> <<>>, rooms_ttl |-> {},
     room_members |-> [r \in RoomIds |-> {}], members_ttl |-> {},
     all_rooms |-> {}, all_rooms_ttl |-> FALSE,
     private_rooms |-> {},
     messages |-> {}, room_messages |-> [r \in RoomIds |-> <<>>],
     reactions |-> {}, reaction_names |-> {}, users |-> <<>>,
     active_users |-> {}]

NoOp == [op |-> "none", ghost |-> 0, room |-> NoId, ret |-> NoId]

NoTrail == [stage |-> "none", by |-> 0]

NoPowCall == [op |-> "none", challenge_id |-> 0, nonce |-> NoNonce,
              outcome |-> "none", zeros |-> 0, difficulty |-> 0, prior |-> <<>>,
              recent_activity |-> 0]

PowStart ==
    /\ pow = [difficulty |-> DefaultDifficulty, challenges |-> <<>>]
    /\ now = 0
    /\ issued = 0
    /\ accepted = [c \in 1..MaxPowOps |-> <<>>]
    /\ powLast = NoPowCall
    /\ rejected = {}

NoSock == [ghost |-> 0, state |-> "unused", client_closed |-> FALSE]

NoHist == [superseded_by |-> NoSocket, was_serving |-> FALSE,
           cache_before |-> {}, handled |-> FALSE,
           after_disconnect |-> FALSE, member_of |-> {}]

NoConnect == [op |-> "none", ghost |-> 0, sock |-> NoSocket]

NoRequest == [type |-> "none", room_id |-> NoId, message_id |-> 0]

NoFlight == [request |-> NoRequest, current_rooms |-> <<>>,
             exit_rooms |-> <<>>, beat_rooms |-> <<>>]

NoHandled ==
    [type |-> "none", ghost |-> 0, room_id |-> NoId, member |-> FALSE,
     registered |-> FALSE, known |-> FALSE, store_down |-> FALSE,
     rooms |-> <<>>, task |-> NoSocket, out |-> <<>>]

SessStart ==
    /\ flight = [t \in Sockets |-> NoFlight]
    /\ sess = [last |-> NoHandled, sent |-> 0]

EmptyRegistry ==
    [active_connections |-> <<>>, ghost_rooms |-> <<>>, heartbeat_tasks |-> <<>>]

ConnStart ==
    /\ ws = EmptyRegistry
    /\ sock = [t \in Sockets |-> NoSock]
    /\ hb = [t \in Sockets |-> "none"]
    /\ handler = [t \in Sockets |-> "idle"]
    /\ connLast = NoConnect
    /\ hist = [left |-> [g \in Ghosts |-> [done |-> FALSE, member_of |-> {}]],
               of |-> [t \in Sockets |-> NoHist]]

StoreInit ==
    /\ PowStart
    /\ ConnStart
    /\ SessStart
    /\ EngineStart
    /\ store = EmptyStore
    /\ last = NoOp
    /\ trail = [r \in RoomIds |-> NoTrail]
    /\ createdPublic = {}
    /\ createdDirect = {}
    /\ opCount = 0
    /\ task = [g \in Ghosts |-> IdleTask]

\* ids the store has a trace of: only these are named by join and leave here
KnownIds ==
    {r \in RoomIds : \/ r \in DOMAIN store.rooms
                     \/ store.room_members[r] # {}
                     \/ r \in store.all_rooms \cup store.private_rooms
                     \/ trail[r].stage # "none"}

FreshIds == {r \in CreatedIds : trail[r].stage = "none"}

StoreCreateRoom ==
    /\ opCount < MaxOps
    /\ FreshIds # {}
    /\ \E is_public \in BOOLEAN :
         LET r == CHOOSE x \in FreshIds : \A y \in FreshIds : x[2] <= y[2]
         IN  /\ store' = create_room(store, r, is_public)
             /\ last' = [op |-> "create_room", ghost |-> 0, room |-> r, ret |-> r]
             /\ trail' = [trail EXCEPT ![r] = [stage |-> "fresh", by |-> 0]]
             /\ createdPublic' = IF is_public THEN createdPublic \cup {r}
                                              ELSE createdPublic
    /\ opCount' = opCount + 1
    /\ UNCHANGED <<createdDirect, notStore>>

StoreCreatePrivateRoom ==
    /\ opCount < MaxOps
    /\ \E a \in Ghosts, b \in Ghosts :
         /\ a # b
         /\ LET ret == create_private_room_result(store, a, b).id
            IN  /\ store' = create_private_room(store, a, b)
                /\ last' = [op |-> "create_private_room", ghost |-> a,
                            room |-> ret, ret |-> ret]
                /\ trail' = [trail EXCEPT ![ret] = [stage |-> "other", by |-> 0]]
                /\ createdDirect' = createdDirect \cup
                                        {[pair |-> {a, b}, first |-> a, id |-> ret]}
    /\ opCount' = opCount + 1
    /\ UNCHANGED <<createdPublic, notStore>>

StoreJoinRoom ==
    /\ opCount < MaxOps
    /\ \E g \in Ghosts, r \in KnownIds :
         /\ store' = join_room(store, g, r)
         /\ last' = [op |-> "join_room", ghost |-> g, room |-> r, ret |-> NoId]
         /\ trail' = [trail EXCEPT ![r] =
                IF @.stage = "fresh" /\ store.room_members[r] = {}
                THEN [stage |-> "joined", by |-> g]
                ELSE [stage |-> "other", by |-> 0]]
    /\ opCount' = opCount + 1
    /\ UNCHANGED <<createdPublic, createdDirect, notStore>>

StoreLeaveRoom ==
    /\ opCount < MaxOps
    /\ \E g \in Ghosts, r \in KnownIds :
         /\ store' = leave_room(store, g, r)
         /\ last' = [op |-> "leave_room", ghost |-> g, room |-> r, ret |-> NoId]
         /\ trail' = [trail EXCEPT ![r] =
                IF @.stage = "joined" /\ @.by = g
                THEN [stage |-> "left", by |-> g]
                ELSE [stage |-> "other", by |-> 0]]
    /\ opCount' = opCount + 1
    /\ UNCHANGED <<createdPublic, createdDirect, notStore>>

\* elapsed time: a key that carries a TTL is removed by Redis
ExpireRoomKey ==
    /\ \E r \in store.rooms_ttl :
         /\ store' = redis_del_room(store, r)
         /\ last' = [op |-> "expire", ghost |-> 0, room |-> r, ret |-> NoId]
         /\ trail' = [trail EXCEPT ![r] = [stage |-> "other", by |-> 0]]
    /\ UNCHANGED <<createdPublic, createdDirect, opCount, notStore>>

ExpireMembersKey ==
    /\ \E r \in store.members_ttl :
         /\ store' = redis_del_members(store, r)
         /\ last' = [op |-> "expire", ghost |-> 0, room |-> r, ret |-> NoId]
         /\ trail' = [trail EXCEPT ![r] = [stage |-> "other", by |-> 0]]
    /\ UNCHANGED <<createdPublic, createdDirect, opCount, notStore>>

ExpireAllRoomsKey ==
    /\ store.all_rooms_ttl
    /\ store' = [store EXCEPT !.all_rooms = {}, !.all_rooms_ttl = FALSE]
    /\ last' = [op |-> "expire", ghost |-> 0, room |-> NoId, ret |-> NoId]
    /\ UNCHANGED <<trail, createdPublic, createdDirect, opCount, notStore>>

StoreNext ==
    \/ StoreCreateRoom
    \/ StoreCreatePrivateRoom
    \/ StoreJoinRoom
    \/ StoreLeaveRoom
    \/ ExpireRoomKey
    \/ ExpireMembersKey
    \/ ExpireAllRoomsKey

StoreSpec == StoreInit /\ [][StoreNext]_vars

(***************************************************************************)
(* Properties of the store, checked under StoreSpec.                       *)
(***************************************************************************)

\* C4: for every room whose record exists, immediately after a join or a
\* leave on that room (operations one at a time) the record's
\* participant_count equals the cardinality of the room's membership set.
C4_MembershipCount ==
    (last.op \in {"join_room", "leave_room"} /\ last.room \in DOMAIN store.rooms)
        => store.rooms[last.room].participant_count
               = Cardinality(store.room_members[last.room])

\* a leave has just left one member behind in a room whose record exists
C4_Witness ==
    /\ last.op = "leave_room"
    /\ last.room \in DOMAIN store.rooms
    /\ store.rooms[last.room].participant_count = 1
    /\ last.ghost \notin store.room_members[last.room]

\* C5: a public room record, once created, carries no TTL in any later state
\* and is still present after any joins, leaves and elapsed time.
C5_PublicNeverExpires ==
    \A r \in createdPublic : r \in DOMAIN store.rooms /\ r \notin store.rooms_ttl

\* C6: a direct room record, once created for a pair, carries no TTL and
\* remains present after any joins and leaves of the pair and elapsed time.
C6_DirectNeverExpires ==
    \A d \in createdDirect : d.id \in DOMAIN store.rooms /\ d.id \notin store.rooms_ttl

\* C7: join(g) then leave(g) on a freshly created room with no other members
\* leaves a non-public room absent from the store and a public room
\* retrievable with participant_count = 0.
C7_PrivateRoomDeletion ==
    \A r \in CreatedIds :
        trail[r].stage = "left" =>
            IF r \in createdPublic
            THEN r \in DOMAIN store.rooms /\ store.rooms[r].participant_count = 0
            ELSE r \notin DOMAIN store.rooms

\* both halves at once: one public and one non-public room, each joined and left
C7_Witness ==
    \E r1 \in CreatedIds, r2 \in CreatedIds :
        /\ trail[r1].stage = "left" /\ r1 \in createdPublic
        /\ trail[r2].stage = "left" /\ r2 \notin createdPublic

(***************************************************************************)
(* The store under concurrent callers: every ghost has one task, and a     *)
(* task inside a RedisManager method yields at each awaited Redis command, *)
(* so the commands of different tasks interleave.  The room of RaceInit    *)
(* exists before any task starts.                                          *)
(***************************************************************************)
FirstRoom == <<"room", 1, 0>>

RaceInit ==
    /\ PowStart
    /\ ConnStart
    /\ SessStart
    /\ EngineStart
    /\ \E is_public \in BOOLEAN :
         /\ store = create_room(EmptyStore, FirstRoom, is_public)
         /\ createdPublic = IF is_public THEN {FirstRoom} ELSE {}
    /\ last = NoOp
    /\ trail = [r \in RoomIds |->
                   IF r = FirstRoom THEN [stage |-> "fresh", by |-> 0] ELSE NoTrail]
    /\ createdDirect = {}
    /\ opCount = 0
    /\ task = [g \in Ghosts |-> IdleTask]

raceFrame == <<last, trail, createdPublic, notRace>>

Goto(g, pc) == task' = [task EXCEPT ![g].pc = pc]

Finish(g) == task' = [task EXCEPT ![g] = IdleTask]

\* join_room, line 233
TaskJoinSadd ==
    /\ opCount < MaxTaskOps
    /\ \E g \in Ghosts, r \in KnownIds :
         /\ task[g].pc = "idle"
         /\ store' = redis_sadd_members(store, r, g)
         /\ task' = [task EXCEPT ![g].pc = "join_expire", ![g].room = r]
    /\ opCount' = opCount + 1
    /\ UNCHANGED <<raceFrame, createdDirect>>

\* join_room, line 234
TaskJoinExpire ==
    /\ \E g \in Ghosts :
         /\ task[g].pc = "join_expire"
         /\ store' = redis_expire_members(store, task[g].room)
         /\ Goto(g, "join_scard")
    /\ UNCHANGED <<raceFrame, createdDirect, opCount>>

\* join_room, line 236
TaskJoinScard ==
    /\ \E g \in Ghosts :
         /\ task[g].pc = "join_scard"
         /\ task' = [task EXCEPT
                ![g].pc = "join_get",
                ![g].participant_count = redis_scard_members(store, task[g].room)]
    /\ UNCHANGED <<store, raceFrame, createdDirect, opCount>>

\* join_room, lines 238-241
TaskJoinGet ==
    /\ \E g \in Ghosts :
         /\ task[g].pc = "join_get"
         /\ IF task[g].room \in DOMAIN store.rooms
            THEN task' = [task EXCEPT
                     ![g].pc = "join_setex",
                     ![g].room_data = [store.rooms[task[g].room] EXCEPT
                         !.participant_count = task[g].participant_count]]
            ELSE Finish(g)
    /\ UNCHANGED <<store, raceFrame, createdDirect, opCount>>

\* join_room, lines 242-246
TaskJoinSetex ==
    /\ \E g \in Ghosts :
         /\ task[g].pc = "join_setex"
         /\ store' = redis_setex_room(store, task[g].room, task[g].room_data)
         /\ Finish(g)
    /\ UNCHANGED <<raceFrame, createdDirect, opCount>>

\* leave_room, line 251
TaskLeaveSrem ==
    /\ opCount < MaxTaskOps
    /\ \E g \in Ghosts, r \in KnownIds :
         /\ task[g].pc = "idle"
         /\ store' = redis_srem_members(store, r, g)
         /\ task' = [task EXCEPT ![g].pc = "leave_scard", ![g].room = r]
    /\ opCount' = opCount + 1
    /\ UNCHANGED <<raceFrame, createdDirect>>

\* leave_room, line 253
TaskLeaveScard ==
    /\ \E g \in Ghosts :
         /\ task[g].pc = "leave_scard"
         /\ task' = [task EXCEPT
                ![g].pc = "leave_get",
                ![g].participant_count = redis_scard_members(store, task[g].room)]
    /\ UNCHANGED <<store, raceFrame, createdDirect, opCount>>

\* leave_room, lines 256-263
TaskLeaveGet ==
    /\ \E g \in Ghosts :
         /\ task[g].pc = "leave_get"
         /\ IF task[g].room \in DOMAIN store.rooms
            THEN LET room_data == [store.rooms[task[g].room] EXCEPT
                         !.participant_count = task[g].participant_count]
                 IN  task' = [task EXCEPT
                         ![g].pc = IF task[g].participant_count = 0
                                      /\ ~room_data.is_public
                                   THEN "leave_delete" ELSE "leave_write",
                         ![g].room_data = room_data]
            ELSE Finish(g)
    /\ UNCHANGED <<store, raceFrame, createdDirect, opCount>>

\* leave_room, line 264
TaskLeaveDelete ==
    /\ \E g \in Ghosts :
         /\ task[g].pc = "leave_delete"
         /\ store' = delete_room(store, task[g].room)
         /\ Finish(g)
    /\ UNCHANGED <<raceFrame, createdDirect, opCount>>

\* leave_room, lines 267-274
TaskLeaveWrite ==
    /\ \E g \in Ghosts :
         /\ task[g].pc = "leave_write"
         /\ store' = IF task[g].room_data.is_public
                     THEN redis_set_room(store, task[g].room, task[g].room_data)
                     ELSE redis_setex_room(store, task[g].room, task[g].room_data)
         /\ Finish(g)
    /\ UNCHANGED <<raceFrame, createdDirect, opCount>>

\* create_private_room, lines 176-182: ghost g asks for its room with `other`
TaskCprGet ==
    /\ opCount < MaxTaskOps
    /\ \E g \in Ghosts, other \in Ghosts :
         /\ g # other
         /\ task[g].pc = "idle"
         /\ LET room_id == DmRoomId(g, other)
            IN  IF room_id \in DOMAIN store.rooms
                THEN /\ createdDirect' = createdDirect \cup
                            {[pair |-> {g, other}, first |-> g,
                              id |-> store.rooms[room_id].id]}
                     /\ UNCHANGED task
                ELSE /\ task' = [task EXCEPT
                            ![g].pc = "cpr_set", ![g].room = room_id,
                            ![g].other = other,
                            ![g].room_data =
                                RoomData(room_id, FALSE, TRUE, "private_message",
                                         sorted_ids(g, other))]
                     /\ UNCHANGED createdDirect
    /\ opCount' = opCount + 1
    /\ UNCHANGED <<store, raceFrame>>

\* create_private_room, line 205
TaskCprSet ==
    /\ \E g \in Ghosts :
         /\ task[g].pc = "cpr_set"
         /\ store' = redis_set_room(store, task[g].room, task[g].room_data)
         /\ Goto(g, "cpr_sadd_private")
    /\ UNCHANGED <<raceFrame, createdDirect, opCount>>

\* create_private_room, line 208
TaskCprSaddPrivate ==
    /\ \E g \in Ghosts :
         /\ task[g].pc = "cpr_sadd_private"
         /\ store' = redis_sadd_private_rooms(store, task[g].room)
         /\ Goto(g, "cpr_sadd1")
    /\ UNCHANGED <<raceFrame, createdDirect, opCount>>

\* create_private_room, line 211
TaskCprSadd1 ==
    /\ \E g \in Ghosts :
         /\ task[g].pc = "cpr_sadd1"
         /\ store' = redis_sadd_members(store, task[g].room, g)
         /\ Goto(g, "cpr_sadd2")
    /\ UNCHANGED <<raceFrame, createdDirect, opCount>>

\* create_private_room, line 212
TaskCprSadd2 ==
    /\ \E g \in Ghosts :
         /\ task[g].pc = "cpr_sadd2"
         /\ store' = redis_sadd_members(store, task[g].room, task[g].other)
         /\ Goto(g, "cpr_expire")
    /\ UNCHANGED <<raceFrame, createdDirect, opCount>>

\* create_private_room, lines 213-216
TaskCprExpire ==
    /\ \E g \in Ghosts :
         /\ task[g].pc = "cpr_expire"
         /\ store' = redis_expire_members(store, task[g].room)
         /\ createdDirect' = createdDirect \cup
                {[pair |-> {g, task[g].other}, first |-> g,
                  id |-> task[g].room_data.id]}
         /\ Finish(g)
    /\ UNCHANGED <<raceFrame, opCount>>

RaceNext ==
    \/ TaskJoinSadd
    \/ TaskJoinExpire
    \/ TaskJoinScard
    \/ TaskJoinGet
    \/ TaskJoinSetex
    \/ TaskLeaveSrem
    \/ TaskLeaveScard
    \/ TaskLeaveGet
    \/ TaskLeaveDelete
    \/ TaskLeaveWrite
    \/ TaskCprGet
    \/ TaskCprSet
    \/ TaskCprSaddPrivate
    \/ TaskCprSadd1
    \/ TaskCprSadd2
    \/ TaskCprExpire

RaceSpec == RaceInit /\ [][RaceNext]_vars

Quiescent == \A g \in Ghosts : task[g].pc = "idle"

\* C3: join and leave update the membership set and the participant count
\* atomically: for any interleaving of joins and leaves by different ghosts
\* on the same existing room, once all of them have completed the record's
\* participant_count equals the cardinality of the membership set.
C3_AtomicJoinLeave ==
    Quiescent =>
        \A r \in CreatedIds \cap DOMAIN store.rooms :
            store.rooms[r].participant_count = Cardinality(store.room_members[r])

DirectRecords(a, b) ==
    {r \in DOMAIN store.rooms :
        /\ store.rooms[r].room_type = "private_message"
        /\ {store.rooms[r].participants[1], store.rooms[r].participants[2]} = {a, b}}

\* C8: create_private_room(a, b) and create_private_room(b, a), in any order,
\* any number of times, sequentially or interleaved, return the same room id,
\* and the store never holds more than one direct-room record for {a, b}.
C8_DirectRoomIdempotent ==
    \A a \in Ghosts, b \in Ghosts :
        a # b =>
            /\ Cardinality(DirectRecords(a, b)) <= 1
            /\ \A x \in createdDirect, y \in createdDirect :
                   (x.pair = {a, b} /\ y.pair = {a, b}) => x.id = y.id

\* both orders have returned, and the record is in the store
C8_Witness ==
    \E x \in createdDirect, y \in createdDirect :
        /\ x.pair = y.pair
        /\ x.first # y.first
        /\ Cardinality({z \in Ghosts : z \in x.pair}) = 2
        /\ \E a \in x.pair, b \in x.pair : a # b /\ DirectRecords(a, b) # {}

(***************************************************************************)
(* The proof-of-work gate: challenges are issued, verified and swept while *)
(* the clock advances and the global difficulty is adjusted.               *)
(***************************************************************************)
PowInit ==
    /\ ConnStart
    /\ SessStart
    /\ EngineStart
    /\ PowStart
    /\ store = EmptyStore
    /\ last = NoOp
    /\ trail = [r \in RoomIds |-> NoTrail]
    /\ createdPublic = {}
    /\ createdDirect = {}
    /\ opCount = 0
    /\ task = [g \in Ghosts |-> IdleTask]

ActivityLevels == {MediumActivity, MediumActivity + 1, HighActivity, HighActivity + 1}

\* GET /api/proof-of-work/{ghost_id}
PowGenerate ==
    /\ opCount < MaxPowOps
    /\ \E g \in Ghosts, random_data \in Seeds :
         /\ pow' = generate_challenge(pow, issued + 1, g, random_data, now)
         /\ powLast' = [NoPowCall EXCEPT !.op = "generate", !.challenge_id = issued + 1,
                                         !.difficulty = pow.difficulty]
    /\ issued' = issued + 1
    /\ opCount' = opCount + 1
    /\ UNCHANGED <<now, accepted, rejected, notPow>>

PowAdaptive ==
    /\ opCount < MaxPowOps
    /\ \E g \in Ghosts, random_data \in Seeds, recent_activity \in ActivityLevels :
         /\ pow' = create_adaptive_challenge(pow, issued + 1, g, random_data, now,
                                             recent_activity)
         /\ powLast' = [NoPowCall EXCEPT
                !.op = "adaptive", !.challenge_id = issued + 1,
                !.difficulty = adaptive_difficulty(pow.difficulty, recent_activity),
                !.recent_activity = recent_activity]
    /\ issued' = issued + 1
    /\ opCount' = opCount + 1
    /\ UNCHANGED <<now, accepted, rejected, notPow>>

\* POST /api/proof-of-work/{ghost_id}/verify
PowVerify ==
    /\ opCount < MaxPowOps
    /\ \E g \in Ghosts, c \in 0..MaxPowOps, nonce \in Nonces \cup {NoNonce} :
         LET outcome == verify_outcome(pow, g, c, nonce, now)
             stored == c \in DOMAIN pow.challenges
         IN  /\ pow' = verify_solution(pow, g, c, nonce, now)
             /\ powLast' =
                    [op |-> "verify", challenge_id |-> c,
                     nonce |-> nonce, outcome |-> outcome,
                     zeros |-> IF stored /\ nonce # NoNonce
                               THEN LeadingZeros(Sha256Hex(
                                        pow.challenges[c].random_data, nonce))
                               ELSE 0,
                     difficulty |-> IF stored THEN pow.challenges[c].difficulty ELSE 0,
                     prior |-> IF c = 0 THEN <<>> ELSE accepted[c],
                     recent_activity |-> 0]
             /\ accepted' = IF outcome = "valid"
                            THEN [accepted EXCEPT ![c] = Append(@, nonce)]
                            ELSE accepted
             /\ rejected' = IF outcome \in {"invalid", "mismatch"}
                            THEN rejected \cup {c}
                            ELSE rejected
    /\ opCount' = opCount + 1
    /\ UNCHANGED <<now, issued, notPow>>

PowAdjust ==
    /\ opCount < MaxPowOps
    /\ \E new_difficulty \in (MinDifficulty - 1)..(MaxDifficulty + 1) :
         /\ pow' = adjust_difficulty(pow, new_difficulty)
         /\ powLast' = [NoPowCall EXCEPT !.op = "adjust"]
    /\ opCount' = opCount + 1
    /\ UNCHANGED <<now, issued, accepted, rejected, notPow>>

\* the clock advances by a second or by the challenge lifetime
PowTick ==
    /\ opCount < MaxPowOps
    /\ \E step \in {1, DefaultTtl} : now' = now + step
    /\ opCount' = opCount + 1
    /\ UNCHANGED <<pow, issued, accepted, powLast, rejected, notPow>>

PowSweep ==
    /\ opCount < MaxPowOps
    /\ pow' = cleanup_expired_challenges(pow, now)
    /\ powLast' = [NoPowCall EXCEPT !.op = "sweep"]
    /\ opCount' = opCount + 1
    /\ UNCHANGED <<now, issued, accepted, rejected, notPow>>

PowNext ==
    \/ PowGenerate
    \/ PowAdaptive
    \/ PowVerify
    \/ PowAdjust
    \/ PowTick
    \/ PowSweep

PowSpec == PowInit /\ [][PowNext]_vars

\* C9: a stored, unexpired challenge with recorded difficulty d, verified by
\* its owner, is accepted iff the digest of seed and nonce has at least d
\* leading zero hex digits, however the challenge was issued and whatever the
\* global difficulty is at verification time.
C9_PowCorrect ==
    (powLast.op = "verify" /\ powLast.outcome \in {"valid", "invalid"})
        => (powLast.outcome = "valid" <=> powLast.zeros >= powLast.difficulty)

\* C10: verify returns true at most once per challenge; after a successful
\* verify the challenge is deleted and a second verify with the same id and
\* nonce fails as not-found.
C10_PowSingleUse ==
    /\ \A c \in 1..MaxPowOps :
         /\ Len(accepted[c]) <= 1
         /\ Len(accepted[c]) = 1 => c \notin DOMAIN pow.challenges
    /\ (powLast.op = "verify" /\ powLast.prior # <<>>
            /\ powLast.nonce = powLast.prior[1])
           => powLast.outcome = "not_found"

\* the accepted nonce has been presented again for the same challenge
C10_Witness ==
    /\ powLast.op = "verify"
    /\ powLast.prior # <<>>
    /\ powLast.nonce = powLast.prior[1]
    /\ powLast.outcome = "not_found"

C12_AdaptiveClamped ==
    powLast.op = "adaptive" =>
        /\ AdaptiveFloor <= powLast.difficulty
        /\ powLast.difficulty <= AdaptiveCeiling
        /\ powLast.recent_activity > HighActivity => powLast.difficulty >= pow.difficulty
        /\ powLast.recent_activity <= MediumActivity => powLast.difficulty <= pow.difficulty

(***************************************************************************)
(* The sweep task on its own: challenges are issued and never verified,    *)
(* time passes while a challenge is still unexpired, and the task started  *)
(* by start_cleanup makes a pass of its loop every minute.  The loop       *)
(* catches every exception but its own cancellation, so a pass that has    *)
(* something to remove is eventually made.                                 *)
(***************************************************************************)
Unexpired(c) == now <= pow.challenges[c].expires_at

\* the clock jumps by the challenge lifetime, or by one second across an expiry time
SweepClock ==
    /\ \E c \in DOMAIN pow.challenges : Unexpired(c)
    /\ \/ now' = now + DefaultTtl
       \/ /\ \E c \in DOMAIN pow.challenges : now = pow.challenges[c].expires_at
          /\ now' = now + 1
    /\ UNCHANGED <<pow, issued, accepted, powLast, rejected, opCount, notPow>>

\* a challenge is issued, by generate_challenge or by create_adaptive_challenge
SweepIssue ==
    /\ issued < MaxSweepIssued
    /\ \E g \in Ghosts, random_data \in Seeds :
         \/ /\ pow' = generate_challenge(pow, issued + 1, g, random_data, now)
            /\ powLast' = [NoPowCall EXCEPT !.op = "generate",
                                            !.challenge_id = issued + 1,
                                            !.difficulty = pow.difficulty]
         \/ \E recent_activity \in ActivityLevels :
              /\ pow' = create_adaptive_challenge(pow, issued + 1, g, random_data,
                                                  now, recent_activity)
              /\ powLast' = [NoPowCall EXCEPT
                     !.op = "adaptive", !.challenge_id = issued + 1,
                     !.difficulty = adaptive_difficulty(pow.difficulty, recent_activity),
                     !.recent_activity = recent_activity]
    /\ issued' = issued + 1
    /\ UNCHANGED <<now, accepted, rejected, opCount, notPow>>

SweepPass ==
    /\ pow' = cleanup_expired_challenges(pow, now)
    /\ powLast' = [NoPowCall EXCEPT !.op = "sweep"]
    /\ UNCHANGED <<now, issued, accepted, rejected, opCount, notPow>>

SweepNext ==
    \/ SweepIssue
    \/ SweepClock
    \/ SweepPass

SweepSpec ==
    /\ PowInit
    /\ [][SweepNext]_vars
    /\ WF_vars(SweepClock)
    /\ WF_vars(SweepPass)

\* C13: with the sweep task running and no verify call made, every issued
\* challenge is eventually removed from the table, and a challenge leaves
\* the table only when its expiry time has passed.
C13_BackgroundSweep ==
    /\ \A c \in 1..MaxSweepIssued :
           (c \in DOMAIN pow.challenges) ~> (c \notin DOMAIN pow.challenges)
    /\ [][\A c \in DOMAIN pow.challenges :
              c \notin DOMAIN pow'.challenges => now > pow.challenges[c].expires_at]_vars

\* a pass has emptied a table that held an issued challenge
C13_Witness ==
    /\ issued > 0
    /\ powLast.op = "sweep"
    /\ pow.challenges = <<>>

(***************************************************************************)
(* The connection registry under concurrent handlers.  Every WebSocket has *)
(* its own websocket_endpoint task; connect yields at its awaits, so the   *)
(* steps of different handlers interleave.  disconnect and the message     *)
(* handlers run to completion.  The store starts with one public room and  *)
(* the direct room of the two ghosts.                                      *)
(***************************************************************************)
Ctx ==
    [store |-> store, ws |-> ws, sock |-> sock, hb |-> hb,
     out |-> <<>>, calls |-> <<>>, store_down |-> FALSE]

Apply(c) ==
    /\ store' = c.store
    /\ ws' = c.ws
    /\ sock' = c.sock
    /\ hb' = c.hb

JoinTargets == {FirstRoom, DmRoomId(1, 2)}

ConnInit ==
    /\ PowStart
    /\ ConnStart
    /\ SessStart
    /\ EngineStart
    /\ store = create_private_room(create_room(EmptyStore, FirstRoom, TRUE), 1, 2)
    /\ last = NoOp
    /\ trail = [r \in RoomIds |-> NoTrail]
    /\ createdPublic = {FirstRoom}
    /\ createdDirect = {[pair |-> {1, 2}, first |-> 1, id |-> DmRoomId(1, 2)]}
    /\ opCount = 0
    /\ task = [g \in Ghosts |-> IdleTask]

\* websocket_endpoint starts on a new socket and runs connect up to accept:
\* the registered socket is closed and its heartbeat task cancelled
ConnectAccept ==
    /\ opCount < MaxConnOps
    /\ \E t \in Sockets, ghost_id \in Ghosts :
         /\ handler[t] = "idle"
         /\ \A u \in Sockets : u < t => handler[u] # "idle"
         /\ LET registered == ghost_id \in DOMAIN ws.active_connections
                old_websocket == ws.active_connections[ghost_id]
                c1 == IF registered THEN websocket_close(Ctx, old_websocket) ELSE Ctx
                c2 == IF registered /\ ghost_id \in DOMAIN ws.heartbeat_tasks
                      THEN task_cancel(c1, ws.heartbeat_tasks[ghost_id])
                      ELSE c1
                c3 == [c2 EXCEPT !.sock[t] = [ghost |-> ghost_id, state |-> "open",
                                              client_closed |-> FALSE]]
            IN  /\ Apply(c3)
                /\ hist' = [hist EXCEPT
                       !.of = [u \in Sockets |->
                           IF u = t
                           THEN [@[u] EXCEPT
                                   !.cache_before = cached_rooms(Ctx, ghost_id),
                                   !.after_disconnect =
                                       hist.left[ghost_id].done /\ ~registered,
                                   !.member_of = hist.left[ghost_id].member_of]
                           ELSE IF registered /\ u = old_websocket
                           THEN [@[u] EXCEPT !.superseded_by = t,
                                             !.was_serving = handler[u] = "loop"]
                           ELSE @[u]],
                       !.left[ghost_id] = [done |-> FALSE, member_of |-> {}]]
         /\ handler' = [handler EXCEPT ![t] = "register"]
    /\ opCount' = opCount + 1
    /\ connLast' = NoConnect
    /\ UNCHANGED notConn

\* was_previously_connected, the registration, and the empty cache of a new ghost
ConnectRegister ==
    /\ opCount < MaxConnOps
    /\ opCount' = opCount + 1
    /\ \E t \in Sockets :
         /\ handler[t] = "register"
         /\ LET ghost_id == sock[t].ghost
                was_previously_connected == ghost_id \in DOMAIN ws.active_connections
            IN  /\ ws' = [ws EXCEPT
                        !.active_connections = Put(@, ghost_id, t),
                        !.ghost_rooms = IF was_previously_connected THEN @
                                        ELSE Put(@, ghost_id, {})]
                /\ handler' = [handler EXCEPT ![t] =
                        IF was_previously_connected THEN "restore" ELSE "heartbeat"]
    /\ connLast' = NoConnect
    /\ UNCHANGED <<store, sock, hb, hist, notConn>>

\* the reconnection branch: the cache is what get_user_rooms returns
ConnectRestore ==
    /\ opCount < MaxConnOps
    /\ opCount' = opCount + 1
    /\ \E t \in Sockets :
         /\ handler[t] = "restore"
         /\ ws' = [ws EXCEPT !.ghost_rooms =
                      Put(@, sock[t].ghost, get_user_rooms(store, sock[t].ghost))]
         /\ handler' = [handler EXCEPT ![t] = "heartbeat"]
    /\ connLast' = NoConnect
    /\ UNCHANGED <<store, sock, hb, hist, notConn>>

\* the heartbeat task of this connect replaces the recorded one
ConnectHeartbeat ==
    /\ opCount < MaxConnOps
    /\ opCount' = opCount + 1
    /\ \E t \in Sockets :
         /\ handler[t] = "heartbeat"
         /\ ws' = [ws EXCEPT !.heartbeat_tasks = Put(@, sock[t].ghost, t)]
         /\ hb' = [hb EXCEPT ![t] = "running"]
         /\ handler' = [handler EXCEPT ![t] = "send"]
    /\ connLast' = NoConnect
    /\ UNCHANGED <<store, sock, hist, notConn>>

\* connection_established goes out; connect returns and the receive loop starts
ConnectSend ==
    /\ opCount < MaxConnOps
    /\ opCount' = opCount + 1
    /\ \E t \in Sockets :
         /\ handler[t] = "send"
         /\ Apply(_send_personal_message(Ctx, sock[t].ghost, "connection_established"))
         /\ handler' = [handler EXCEPT ![t] = "loop"]
         /\ connLast' = [op |-> "connect", ghost |-> sock[t].ghost, sock |-> t]
    /\ UNCHANGED <<hist, notConn>>

ReceiveJoinRoom ==
    /\ opCount < MaxConnOps
    /\ opCount' = opCount + 1
    /\ \E t \in Sockets, room_id \in JoinTargets :
         /\ handler[t] = "loop"
         /\ sock[t].state = "open"
         /\ Apply(_handle_join_room(Ctx, sock[t].ghost, room_id))
         /\ hist' = [hist EXCEPT !.of[t].handled = TRUE]
    /\ connLast' = NoConnect
    /\ UNCHANGED <<handler, notConn>>

ReceiveLeaveRoom ==
    /\ opCount < MaxConnOps
    /\ opCount' = opCount + 1
    /\ \E t \in Sockets, room_id \in JoinTargets :
         /\ handler[t] = "loop"
         /\ sock[t].state = "open"
         /\ Apply(_handle_leave_room(Ctx, sock[t].ghost, room_id))
         /\ hist' = [hist EXCEPT !.of[t].handled = TRUE]
    /\ connLast' = NoConnect
    /\ UNCHANGED <<handler, notConn>>

\* the client goes away
ClientClose ==
    /\ opCount < MaxConnOps
    /\ opCount' = opCount + 1
    /\ \E t \in Sockets :
         /\ sock[t].state = "open"
         /\ sock' = [sock EXCEPT ![t].state = "closed", ![t].client_closed = TRUE]
    /\ connLast' = NoConnect
    /\ UNCHANGED <<store, ws, hb, handler, hist, notConn>>

\* receive_json raises on a closed socket: the finally block runs disconnect
HandlerExit ==
    /\ opCount < MaxConnOps
    /\ opCount' = opCount + 1
    /\ \E t \in Sockets :
         /\ handler[t] = "loop"
         /\ sock[t].state = "closed"
         /\ LET ghost_id == sock[t].ghost
            IN  /\ Apply(disconnect(Ctx, ghost_id))
                /\ hist' = IF ghost_id \in DOMAIN ws.active_connections
                           THEN [hist EXCEPT !.left[ghost_id] =
                                    [done |-> TRUE,
                                     member_of |-> get_user_rooms(store, ghost_id)]]
                           ELSE hist
         /\ handler' = [handler EXCEPT ![t] = "done"]
    /\ connLast' = NoConnect
    /\ UNCHANGED notConn

\* one pass of _heartbeat_loop that does not find an open registered socket:
\* the loop ends, or the send raises and disconnect runs first
HeartbeatLoop ==
    /\ opCount < MaxConnOps
    /\ opCount' = opCount + 1
    /\ \E t \in Sockets, send_raises \in BOOLEAN :
         /\ hb[t] = "running"
         /\ LET ghost_id == sock[t].ghost
                c1 == IF /\ ghost_id \in DOMAIN ws.active_connections
                         /\ send_raises
                      THEN disconnect(Ctx, ghost_id)
                      ELSE Ctx
            IN  /\ IF ghost_id \in DOMAIN ws.active_connections
                   THEN sock[ws.active_connections[ghost_id]].state # "open"
                   ELSE TRUE
                /\ Apply([c1 EXCEPT !.hb[t] = IF @ = "running" THEN "done" ELSE @])
    /\ connLast' = NoConnect
    /\ UNCHANGED <<handler, hist, notConn>>

ConnNext ==
    \/ ConnectAccept
    \/ ConnectRegister
    \/ ConnectRestore
    \/ ConnectHeartbeat
    \/ ConnectSend
    \/ ReceiveJoinRoom
    \/ ReceiveLeaveRoom
    \/ ClientClose
    \/ HandlerExit
    \/ HeartbeatLoop

ConnSpec == ConnInit /\ [][ConnNext]_vars

\* C1: when connect(g, t2) supersedes a registered connection t1 whose handler
\* was in its receive loop, and that handler has finished its cleanup, g is
\* still registered with t2, t2 is open, g's heartbeat task is recorded and
\* running, and g's room cache still holds the rooms cached when t2's connect
\* began (t2 not closed by its client, not superseded itself, and no message
\* handled on it yet).
C1_SupersedingConnection ==
    \A t1 \in Sockets, t2 \in Sockets :
        (/\ hist.of[t1].superseded_by = t2
         /\ hist.of[t1].was_serving
         /\ handler[t1] = "done"
         /\ handler[t2] = "loop"
         /\ ~sock[t2].client_closed
         /\ hist.of[t2].superseded_by = NoSocket
         /\ ~hist.of[t2].handled)
        => LET g == sock[t2].ghost
           IN  /\ g \in DOMAIN ws.active_connections
               /\ ws.active_connections[g] = t2
               /\ sock[t2].state = "open"
               /\ g \in DOMAIN ws.heartbeat_tasks
               /\ hb[ws.heartbeat_tasks[g]] = "running"
               /\ g \in DOMAIN ws.ghost_rooms
               /\ hist.of[t2].cache_before \subseteq ws.ghost_rooms[g]

\* C2: when g was a member of two rooms, disconnect(g) ran, and the next
\* connect(g, t) has just completed, g's cached room set is exactly those
\* two rooms.
C2_ReconnectionReconciliation ==
    (/\ connLast.op = "connect"
     /\ hist.of[connLast.sock].after_disconnect
     /\ Cardinality(hist.of[connLast.sock].member_of) = 2)
    => /\ connLast.ghost \in DOMAIN ws.ghost_rooms
       /\ ws.ghost_rooms[connLast.ghost] = hist.of[connLast.sock].member_of

\* the heartbeat tasks of g that are not cancelled and whose loop goes on: g is
\* registered and the registered socket is open
LiveHeartbeats(g) ==
    {t \in Sockets : /\ sock[t].ghost = g
                     /\ hb[t] = "running"
                     /\ g \in DOMAIN ws.active_connections
                     /\ sock[ws.active_connections[g]].state = "open"}

\* C17: in every reachable state, also after two interleaved connect calls for
\* the same ghost, at most one heartbeat task of the ghost is live, and it is
\* the task recorded in heartbeat_tasks.
C17_OneHeartbeat ==
    \A g \in Ghosts :
        /\ Cardinality(LiveHeartbeats(g)) <= 1
        /\ \A t \in LiveHeartbeats(g) :
               /\ g \in DOMAIN ws.heartbeat_tasks
               /\ ws.heartbeat_tasks[g] = t

(***************************************************************************)
(* Requests and teardown.  Both ghosts are connected, each on its own      *)
(* socket, with a running heartbeat task and an empty room cache: the      *)
(* state after two complete connects.  _handle_join_room yields once, at   *)
(* its first await, after the copy of the cached rooms; the other request  *)
(* handlers run to completion.  disconnect yields once, at its first       *)
(* await, after the check of line 80 and the copy of the cached rooms; the *)
(* endpoint's finally block and a failed heartbeat both call it.           *)
(***************************************************************************)
MaxSessOps == 2

MissingRoom == <<"room", 2, 0>>

SessRooms == {FirstRoom, DmRoomId(1, 2), MissingRoom}

\* the message ids reaction requests name: the first id send_message draws
MessageIds == {1}

SessInit ==
    /\ PowStart
    /\ SessStart
    /\ EngineStart
    /\ store = create_ghost_session(create_ghost_session(
                   create_private_room(create_room(EmptyStore, FirstRoom, TRUE), 1, 2),
                   1), 2)
    /\ last = NoOp
    /\ trail = [r \in RoomIds |-> NoTrail]
    /\ createdPublic = {FirstRoom}
    /\ createdDirect = {[pair |-> {1, 2}, first |-> 1, id |-> DmRoomId(1, 2)]}
    /\ opCount = 0
    /\ task = [g \in Ghosts |-> IdleTask]
    /\ ws = [active_connections |-> [g \in Ghosts |-> g],
             ghost_rooms |-> [g \in Ghosts |-> {}],
             heartbeat_tasks |-> [g \in Ghosts |-> g]]
    /\ sock = [t \in Sockets |->
                 IF t \in Ghosts
                 THEN [ghost |-> t, state |-> "open", client_closed |-> FALSE]
                 ELSE NoSock]
    /\ hb = [t \in Sockets |-> IF t \in Ghosts THEN "running" ELSE "none"]
    /\ handler = [t \in Sockets |-> IF t \in Ghosts THEN "loop" ELSE "idle"]
    /\ connLast = NoConnect
    /\ hist = [left |-> [g \in Ghosts |-> [done |-> FALSE, member_of |-> {}]],
               of |-> [t \in Sockets |-> NoHist]]

\* what a handled request leaves in the history
Handled(t, request, c) ==
    LET ghost_id == sock[t].ghost
    IN  [NoHandled EXCEPT
            !.type = request.type,
            !.ghost = ghost_id,
            !.room_id = request.room_id,
            !.member = request.room_id \in cached_rooms(Ctx, ghost_id),
            !.registered = ghost_id \in DOMAIN ws.active_connections,
            !.known = request.room_id \in DOMAIN store.rooms,
            !.task = t,
            !.out = c.out]

Request(type, room_id, message_id) ==
    [type |-> type, room_id |-> room_id, message_id |-> message_id]

\* a request is handled on a socket whose endpoint is at receive_json
Receiving(t) ==
    /\ opCount < MaxSessOps
    /\ opCount' = opCount + 1
    /\ handler[t] = "loop"
    /\ sock[t].state = "open"

\* _handle_join_room up to its first await: the cache entry and the copy of
\* the cached rooms
SessJoinEnter ==
    /\ \E t \in Sockets, room_id \in SessRooms :
         /\ Receiving(t)
         /\ \E c \in {ensure_ghost_rooms(Ctx, sock[t].ghost)} :
                /\ ws' = c.ws
                /\ flight' = [flight EXCEPT
                       ![t].request = Request("join_room", room_id, 0),
                       ![t].current_rooms = SeqOf(cached_rooms(c, sock[t].ghost))]
         /\ handler' = [handler EXCEPT ![t] = "joining"]
    /\ sess' = [sess EXCEPT !.last = NoHandled]
    /\ UNCHANGED <<store, sock, hb, notSess>>

\* the rest of _handle_join_room; the endpoint is back at receive_json
SessJoinRun ==
    /\ \E t \in Sockets :
         /\ handler[t] = "joining"
         /\ \E c \in {_handle_join_room_from(Ctx, sock[t].ghost,
                                            flight[t].current_rooms,
                                            flight[t].request.room_id)} :
                /\ Apply(c)
                /\ sess' = [sess EXCEPT !.last = Handled(t, flight[t].request, c)]
         /\ handler' = [handler EXCEPT ![t] = "loop"]
         /\ flight' = [flight EXCEPT ![t].request = NoRequest,
                                     ![t].current_rooms = <<>>]
    /\ UNCHANGED <<opCount, notSess>>

SessLeaveRoom ==
    /\ \E t \in Sockets, room_id \in SessRooms :
         /\ Receiving(t)
         /\ \E c \in {_handle_leave_room(Ctx, sock[t].ghost, room_id)} :
                /\ Apply(c)
                /\ sess' = [sess EXCEPT !.last =
                       Handled(t, Request("leave_room", room_id, 0), c)]
    /\ UNCHANGED <<handler, flight, notSess>>

SessSendMessage ==
    /\ \E t \in Sockets, room_id \in SessRooms :
         /\ Receiving(t)
         /\ \E c \in {_handle_send_message(Ctx, sock[t].ghost, room_id, sess.sent + 1)} :
                /\ Apply(c)
                /\ sess' = [last |-> Handled(t, Request("send_message", room_id, 0), c),
                            sent |-> IF c.store.messages # store.messages
                                     THEN sess.sent + 1 ELSE sess.sent]
    /\ UNCHANGED <<handler, flight, notSess>>

SessAddReaction ==
    /\ \E t \in Sockets, room_id \in SessRooms, message_id \in MessageIds :
         /\ Receiving(t)
         /\ \E c \in {_handle_add_reaction(Ctx, sock[t].ghost, room_id,
                                          message_id, Emoji)} :
                /\ Apply(c)
                /\ sess' = [sess EXCEPT !.last =
                       Handled(t, Request("add_reaction", room_id, message_id), c)]
    /\ UNCHANGED <<handler, flight, notSess>>

SessRemoveReaction ==
    /\ \E t \in Sockets, room_id \in SessRooms, message_id \in MessageIds :
         /\ Receiving(t)
         /\ \E c \in {_handle_remove_reaction(Ctx, sock[t].ghost, room_id,
                                             message_id, Emoji)} :
                /\ Apply(c)
                /\ sess' = [sess EXCEPT !.last =
                       Handled(t, Request("remove_reaction", room_id, message_id), c)]
    /\ UNCHANGED <<handler, flight, notSess>>

\* the client goes away
SessClientClose ==
    /\ \E t \in Sockets :
         /\ sock[t].state = "open"
         /\ sock' = [sock EXCEPT ![t].state = "closed", ![t].client_closed = TRUE]
    /\ sess' = [sess EXCEPT !.last = NoHandled]
    /\ UNCHANGED <<store, ws, hb, handler, flight, opCount, notSess>>

\* what a run of disconnect leaves in the history; task is the heartbeat task
\* recorded for the ghost when the run began
Disconnected(ghost_id, room_ids, store_down, c) ==
    [NoHandled EXCEPT
        !.type = "disconnect",
        !.ghost = ghost_id,
        !.registered = ghost_id \in DOMAIN ws.active_connections,
        !.store_down = store_down,
        !.rooms = room_ids,
        !.task = IF ghost_id \in DOMAIN ws.heartbeat_tasks
                 THEN ws.heartbeat_tasks[ghost_id] ELSE NoSocket,
        !.out = c.out]

\* receive_json raises on a closed socket and the finally block calls
\* disconnect: the check of line 80 and the copy of the cached rooms
SessExitEnter ==
    /\ \E t \in Sockets :
         /\ handler[t] = "loop"
         /\ sock[t].state = "closed"
         /\ IF sock[t].ghost \in DOMAIN ws.active_connections
            THEN /\ handler' = [handler EXCEPT ![t] = "exiting"]
                 /\ flight' = [flight EXCEPT ![t].exit_rooms =
                                  SeqOf(cached_rooms(Ctx, sock[t].ghost))]
            ELSE /\ handler' = [handler EXCEPT ![t] = "done"]
                 /\ flight' = flight
    /\ sess' = [sess EXCEPT !.last = NoHandled]
    /\ UNCHANGED <<store, ws, sock, hb, opCount, notSess>>

\* the rest of the endpoint's disconnect
SessExitRun ==
    /\ \E t \in Sockets, store_down \in BOOLEAN :
         /\ handler[t] = "exiting"
         /\ LET ghost_id == sock[t].ghost
            IN  \E c \in {disconnect_from([Ctx EXCEPT !.store_down = store_down],
                                     ghost_id, flight[t].exit_rooms)} :
                /\ Apply(c)
                /\ sess' = [sess EXCEPT !.last =
                       Disconnected(ghost_id, flight[t].exit_rooms, store_down, c)]
         /\ handler' = [handler EXCEPT ![t] = "done"]
         /\ flight' = [flight EXCEPT ![t].exit_rooms = <<>>]
    /\ UNCHANGED <<opCount, notSess>>

\* one pass of _heartbeat_loop that does not find an open registered socket:
\* the loop ends, or the send raises and the task calls disconnect
SessBeatEnter ==
    /\ \E t \in Sockets, send_raises \in BOOLEAN :
         /\ hb[t] = "running"
         /\ LET ghost_id == sock[t].ghost
                registered == ghost_id \in DOMAIN ws.active_connections
            IN  /\ IF registered
                   THEN sock[ws.active_connections[ghost_id]].state # "open"
                   ELSE TRUE
                /\ IF registered /\ send_raises
                   THEN /\ hb' = [hb EXCEPT ![t] = "disconnecting"]
                        /\ flight' = [flight EXCEPT ![t].beat_rooms =
                                         SeqOf(cached_rooms(Ctx, ghost_id))]
                   ELSE /\ hb' = [hb EXCEPT ![t] = "done"]
                        /\ flight' = flight
    /\ sess' = [sess EXCEPT !.last = NoHandled]
    /\ UNCHANGED <<store, ws, sock, handler, opCount, notSess>>

\* the rest of the heartbeat task's disconnect; the loop then breaks
SessBeatRun ==
    /\ \E t \in Sockets, store_down \in BOOLEAN :
         /\ hb[t] = "disconnecting"
         /\ LET ghost_id == sock[t].ghost
            IN  \E c \in {disconnect_from([Ctx EXCEPT !.store_down = store_down],
                                     ghost_id, flight[t].beat_rooms)} :
                /\ Apply([c EXCEPT !.hb[t] = IF @ = "disconnecting" THEN "done" ELSE @])
                /\ sess' = [sess EXCEPT !.last =
                       Disconnected(ghost_id, flight[t].beat_rooms, store_down, c)]
         /\ flight' = [flight EXCEPT ![t].beat_rooms = <<>>]
    /\ UNCHANGED <<handler, opCount, notSess>>

SessNext ==
    \/ SessJoinEnter
    \/ SessJoinRun
    \/ SessLeaveRoom
    \/ SessSendMessage
    \/ SessAddReaction
    \/ SessRemoveReaction
    \/ SessClientClose
    \/ SessExitEnter
    \/ SessExitRun
    \/ SessBeatEnter
    \/ SessBeatRun

SessSpec == SessInit /\ [][SessNext]_vars

Range(f) == {f[i] : i \in DOMAIN f}

\* C14: when a disconnect(g) that g was registered for has returned, g is in
\* none of active_connections, ghost_rooms and heartbeat_tasks, also when the
\* store raised; the heartbeat task recorded for g is no longer running; and,
\* the store not having raised, g is in the membership set of no room that
\* was in its cached room set when disconnect copied it.
C14_DisconnectPostcondition ==
    (sess.last.type = "disconnect" /\ sess.last.registered) =>
        LET g == sess.last.ghost
        IN  /\ g \notin DOMAIN ws.active_connections
            /\ g \notin DOMAIN ws.ghost_rooms
            /\ g \notin DOMAIN ws.heartbeat_tasks
            /\ sess.last.task # NoSocket => hb[sess.last.task] # "running"
            /\ ~sess.last.store_down =>
                   \A r \in Range(sess.last.rooms) : g \notin store.room_members[r]

C14_Witness ==
    /\ sess.last.type = "disconnect"
    /\ sess.last.registered
    /\ sess.last.rooms # <<>>
    /\ sess.last.task # NoSocket

\* C15: a disconnect(g) that runs when another disconnect(g) has already
\* unregistered g and taken g out of every room of the cached set (the
\* endpoint's cleanup and a failed heartbeat both calling it) changes neither
\* the store nor the registry (every ghost still registered has an open
\* socket, so no send of this disconnect fails).
C15_DisconnectIdempotent ==
    [][(/\ sess'.last.type = "disconnect"
        /\ ~sess'.last.registered
        /\ \A r \in Range(sess'.last.rooms) :
               sess'.last.ghost \notin store.room_members[r]
        /\ \A g \in DOMAIN ws.active_connections :
               sock[ws.active_connections[g]].state = "open")
       => (store' = store /\ ws' = ws)]_vars

\* no connect, request handler or disconnect is between two of its steps
Quiet ==
    /\ \A t \in Sockets : handler[t] \in {"idle", "loop", "done"}
    /\ \A t \in Sockets : hb[t] # "disconnecting"

\* C16: in every state where no connect, request or disconnect is in flight,
\* only ghosts with a registered connection have an entry in the room cache
\* or in the heartbeat-task map: whatever was in flight when disconnect(g)
\* completed has not put g back.
C16_NoResurrection ==
    Quiet => \A g \in (DOMAIN ws.ghost_rooms) \cup (DOMAIN ws.heartbeat_tasks) :
                 g \in DOMAIN ws.active_connections

\* C18: a send_message, add_reaction or remove_reaction request of a ghost
\* that is not a cached member of the target room is answered with one error
\* envelope to the requester and nothing else is delivered; the store
\* (messages, message index, reaction sets and names, sessions, rooms) is
\* unchanged.
C18_Authorization ==
    [][(/\ opCount' # opCount
        /\ sess'.last.type \in {"send_message", "add_reaction", "remove_reaction"}
        /\ ~sess'.last.member)
       => /\ sess'.last.out = <<[to |-> sess'.last.ghost, type |-> "error"]>>
          /\ store' = store]_vars

C18_Witness ==
    /\ sess.last.type = "send_message"
    /\ ~sess.last.member
    /\ sess.last.ghost \in store.room_members[sess.last.room_id]
    /\ sess.last.out = <<[to |-> sess.last.ghost, type |-> "error"]>>
    /\ \E g \in Ghosts : ws.ghost_rooms[g] # {}

\* C19: a leave_room request for a room the ghost is not a cached member of
\* leaves the store unchanged (room record, TTLs, membership set, messages)
\* and delivers no ghost_left to the room.
C19_LeaveValidatesMembership ==
    [][(/\ opCount' # opCount
        /\ sess'.last.type = "leave_room"
        /\ ~sess'.last.member)
       => /\ store' = store
          /\ \A i \in DOMAIN sess'.last.out : sess'.last.out[i].type # "ghost_left"]_vars

\* C20: when a join_room request naming a room id without a room record has
\* been handled, the requester has been sent an error, the store has no
\* membership set for that id, and the id is not in the requester's cached
\* room set.
C20_JoinNotFound ==
    (sess.last.type = "join_room" /\ ~sess.last.known) =>
        /\ \E i \in DOMAIN sess.last.out :
               sess.last.out[i] = [to |-> sess.last.ghost, type |-> "error"]
        /\ store.room_members[sess.last.room_id] = {}
        /\ sess.last.room_id \notin cached_rooms(Ctx, sess.last.ghost)

(***************************************************************************)
(* The store under destruction and cleanup: the REST calls that write the  *)
(* store, destroy_ghost, the keys' expiry and the cleanup cycle of the     *)
(* DestructionEngine, whose sub-steps are separated by awaits.             *)
(***************************************************************************)
MaxPurgeOps == 2

SecondRoom == <<"room", 2, 0>>

PurgeRooms == {FirstRoom, SecondRoom, DmRoomId(1, 2)}

\* a public room, a room created with is_public = False, the direct room of
\* the two ghosts, and their sessions
PurgeInit ==
    /\ PowStart
    /\ ConnStart
    /\ SessStart
    /\ EngineStart
    /\ store = create_ghost_session(create_ghost_session(
                   create_private_room(
                       create_room(create_room(EmptyStore, FirstRoom, TRUE),
                                   SecondRoom, FALSE),
                       1, 2),
                   1), 2)
    /\ last = NoOp
    /\ trail = [r \in RoomIds |-> NoTrail]
    /\ createdPublic = {FirstRoom}
    /\ createdDirect = {[pair |-> {1, 2}, first |-> 1, id |-> DmRoomId(1, 2)]}
    /\ opCount = 0
    /\ task = [g \in Ghosts |-> IdleTask]

\* what a call leaves in the history; found is what it met in the store
Called(op, ghost_id, room_id, ret, found) ==
    /\ last' = [op |-> op, ghost |-> ghost_id, room |-> room_id, ret |-> ret,
                found |-> found]
    /\ opCount' = opCount + 1
    /\ UNCHANGED <<engine, notPurge>>

PurgeJoinRoom ==
    /\ opCount < MaxPurgeOps
    /\ \E ghost_id \in Ghosts, room_id \in PurgeRooms :
         /\ store' = join_room(store, ghost_id, room_id)
         /\ Called("join_room", ghost_id, room_id, 0, store.room_members[room_id])

PurgeSendMessage ==
    /\ opCount < MaxPurgeOps
    /\ \E ghost_id \in Ghosts, room_id \in PurgeRooms :
         /\ store' = send_message(store, opCount + 1, ghost_id, room_id)
         /\ Called("send_message", ghost_id, room_id, opCount + 1, {})

\* POST /api/message/{message_id}/reaction: refused without a session
PurgeAddReaction ==
    /\ opCount < MaxPurgeOps
    /\ \E ghost_id \in Ghosts, message_id \in MessageIds :
         /\ store' = IF get_ghost_session(store, ghost_id)
                     THEN add_message_reaction(store, message_id, ghost_id, Emoji)
                     ELSE store
         /\ Called("add_reaction", ghost_id, NoId, message_id,
                   reactors(store, message_id, Emoji))

\* DELETE /api/message/{message_id}/reaction: refused without a session
PurgeRemoveReaction ==
    /\ opCount < MaxPurgeOps
    /\ \E ghost_id \in Ghosts, message_id \in MessageIds :
         /\ store' = IF get_ghost_session(store, ghost_id)
                     THEN remove_message_reaction(store, message_id, ghost_id, Emoji)
                     ELSE store
         /\ Called("remove_reaction", ghost_id, NoId, message_id,
                   reactors(store, message_id, Emoji))

\* POST /api/ghost/{ghost_id}/destroy
PurgeDestroy ==
    /\ opCount < MaxPurgeOps
    /\ \E ghost_id \in Ghosts :
         /\ store' = delete_ghost_data(store, ghost_id)
         /\ Called("destroy", ghost_id, NoId, 0,
                   {r \in RoomIds : ghost_id \in store.room_members[r]})

\* a key with a TTL goes
PurgeExpire ==
    /\ \/ \E r \in store.rooms_ttl : store' = redis_del_room(store, r)
       \/ \E r \in store.members_ttl : store' = redis_del_members(store, r)
       \/ /\ store.all_rooms_ttl
          /\ store' = [store EXCEPT !.all_rooms = {}, !.all_rooms_ttl = FALSE]
       \/ \E m \in store.messages : store' = [store EXCEPT !.messages = @ \ {m}]
    /\ last' = [NoOp EXCEPT !.op = "expire"]
    /\ UNCHANGED <<opCount, engine, notPurge>>

\* one step of the cycle: it raises at its first store call, or runs
Cycle(at, next, s, fails, found) ==
    /\ engine.at = at
    /\ last' = [op |-> at, ghost |-> 0, room |-> NoId, ret |-> NoId, found |-> found]
    /\ IF fails
       THEN /\ store' = store
            /\ engine' = _perform_cleanup_except(engine, at)
       ELSE /\ store' = s
            /\ engine' = [engine EXCEPT !.at = next, !.ran = @ \cup {at}]
    /\ UNCHANGED <<opCount, notPurge>>

\* _perform_cleanup begins: cleanup_expired_data
BeginCycle(turn) ==
    /\ engine.at = "sleep"
    /\ last' = [NoOp EXCEPT !.op = "cleanup_expired_data"]
    /\ \E fails \in BOOLEAN :
         IF fails
         THEN /\ store' = store
              /\ engine' = _perform_cleanup_except(
                               [engine EXCEPT !.ran = {}, !.turn = turn],
                               "cleanup_expired_data")
         ELSE /\ store' = cleanup_expired_data(store)
              /\ engine' = [engine EXCEPT !.at = "a", !.ran = {}, !.failed = "none",
                                          !.turn = turn]
    /\ UNCHANGED <<opCount, notPurge>>

CycleExpiredData == BeginCycle(engine.turn)

CycleOrphanedRooms ==
    \E fails \in BOOLEAN :
        Cycle("a", "b", _cleanup_orphaned_rooms(store), fails,
              {r \in store.all_rooms : r \notin DOMAIN store.rooms})

CycleEmptySets ==
    \E fails \in BOOLEAN :
        Cycle("b", "c", _cleanup_empty_sets(store), fails,
              {r \in store.all_rooms : store.room_members[r] = {}})

\* the except branch of _cleanup_orphaned_reactions logs and returns
CycleOrphanedReactions ==
    \E fails \in BOOLEAN :
        Cycle("c", "sleep", _cleanup_orphaned_reactions(store), fails,
              {t[1] : t \in store.reactions \cup store.reaction_names})

PurgeCall ==
    \/ PurgeJoinRoom
    \/ PurgeSendMessage
    \/ PurgeAddReaction
    \/ PurgeRemoveReaction
    \/ PurgeDestroy

PurgeNext ==
    \/ PurgeCall
    \/ PurgeExpire

PurgeSpec == PurgeInit /\ [][PurgeNext]_vars

\* the cleanup cycle beside the same calls and expiries
MaxCycleOps == 1

CycleNext ==
    \/ opCount < MaxCycleOps /\ PurgeCall
    \/ PurgeExpire
    \/ CycleExpiredData
    \/ CycleOrphanedRooms
    \/ CycleEmptySets
    \/ CycleOrphanedReactions

CycleSpec == PurgeInit /\ [][CycleNext]_vars

\* C24: when destroy_ghost(g) has returned, g has no session record, is not
\* in active_users and is in the membership set of no room, whichever keys
\* had expired before the call.
C24_DestructionComplete ==
    last.op = "destroy" =>
        /\ last.ghost \notin DOMAIN store.users
        /\ last.ghost \notin store.active_users
        /\ \A r \in RoomIds : last.ghost \notin store.room_members[r]

\* C25: destroy_ghost(g) removes no message body: every message g wrote that
\* get_room_messages of its room returned before the call is returned after it.
C25_DestructionKeepsMessages ==
    [][(opCount' # opCount /\ last'.op = "destroy")
       => \A m \in store.messages :
             (m.sender = last'.ghost /\ m.id \in get_room_messages(store, m.room_id))
                 => m.id \in get_room_messages(store', m.room_id)]_vars

\* C26: when remove_message_reaction(m, g, e) has taken the last reactor out
\* of the set of (m, e), neither the reaction set nor the display-name hash of
\* (m, e) is in the store, and get_message_reactions(m) has no entry for e.
C26_EmptyReactionSetDeleted ==
    [][(/\ opCount' # opCount
        /\ last'.op = "remove_reaction"
        /\ last'.found = {last'.ghost})
       => /\ reactors(store', last'.ret, Emoji) = {}
          /\ display_names(store', last'.ret, Emoji) = {}
          /\ Emoji \notin get_message_reactions(store', last'.ret)]_vars

\* the last reactor of a message has removed its reaction
C26_Witness ==
    /\ last.op = "remove_reaction"
    /\ last.found = {last.ghost}
    /\ reactors(store, last.ret, Emoji) = {}

\* what the record of a room says, when there is one
IsPublic(s, r) == IF r \in DOMAIN s.rooms THEN s.rooms[r].is_public ELSE FALSE

IsDirect(s, r) ==
    IF r \in DOMAIN s.rooms THEN s.rooms[r].room_type = "private_message" ELSE FALSE

MessagesOf(s, r) == {m \in s.messages : m.room_id = r}

C30_SubStepsIndependent ==
    (engine.at = "sleep" /\ engine.failed \in {"a", "b", "c"})
        => engine.ran = {"a", "b", "c"} \ {engine.failed}

(***************************************************************************)
(* Requests of every type on two connected ghosts that are both in the     *)
(* public room, handled one at a time.  Beside them the clients may go     *)
(* away and the endpoint then disconnects, a heartbeat                     *)
(* is delivered, the lease of a session runs and ends, and a store command *)
(* of send_message may raise.                                              *)
(***************************************************************************)
MaxReqOps == 2

ReqRooms == {FirstRoom, DmRoomId(1, 2)}

ReqInit ==
    /\ PowStart
    /\ SessStart
    /\ EngineStart
    /\ store = join_room(join_room(
                   create_ghost_session(create_ghost_session(
                       create_private_room(create_room(EmptyStore, FirstRoom, TRUE), 1, 2),
                       1), 2),
                   1, FirstRoom), 2, FirstRoom)
    /\ last = NoOp
    /\ trail = [r \in RoomIds |-> NoTrail]
    /\ createdPublic = {FirstRoom}
    /\ createdDirect = {[pair |-> {1, 2}, first |-> 1, id |-> DmRoomId(1, 2)]}
    /\ opCount = 0
    /\ task = [g \in Ghosts |-> IdleTask]
    /\ ws = [active_connections |-> [g \in Ghosts |-> g],
             ghost_rooms |-> [g \in Ghosts |-> {FirstRoom}],
             heartbeat_tasks |-> [g \in Ghosts |-> g]]
    /\ sock = [t \in Sockets |->
                 IF t \in Ghosts
                 THEN [ghost |-> t, state |-> "open", client_closed |-> FALSE]
                 ELSE NoSock]
    /\ hb = [t \in Sockets |-> IF t \in Ghosts THEN "running" ELSE "none"]
    /\ handler = [t \in Sockets |-> IF t \in Ghosts THEN "loop" ELSE "idle"]
    /\ connLast = NoConnect
    /\ hist = [left |-> [g \in Ghosts |-> [done |-> FALSE, member_of |-> {}]],
               of |-> [t \in Sockets |-> NoHist]]

\* a request of the given type is handled on socket t and leaves context c
Served(t, type, room_id, store_down, c) ==
    /\ opCount < MaxReqOps
    /\ opCount' = opCount + 1
    /\ handler[t] = "loop"
    /\ sock[t].state = "open"
    /\ Apply(c)
    /\ sess' = [sess EXCEPT !.last =
                   [Handled(t, Request(type, room_id, 0), c)
                       EXCEPT !.store_down = store_down]]
    /\ UNCHANGED <<handler, flight, notSess>>

ReqJoinRoom ==
    \E t \in Sockets, room_id \in ReqRooms :
        Served(t, "join_room", room_id, FALSE,
               _handle_join_room(Ctx, sock[t].ghost, room_id))

ReqLeaveRoom ==
    \E t \in Sockets, room_id \in ReqRooms :
        Served(t, "leave_room", room_id, FALSE,
               _handle_leave_room(Ctx, sock[t].ghost, room_id))

ReqSendMessage ==
    \E t \in Sockets, room_id \in ReqRooms :
        Served(t, "send_message", room_id, FALSE,
               _handle_send_message(Ctx, sock[t].ghost, room_id, opCount + 1))

\* a store command raises while the request is handled
ReqSendMessageRaising ==
    \E t \in Sockets, room_id \in ReqRooms, fail_at \in FailPoints :
        /\ room_id \in cached_rooms(Ctx, sock[t].ghost)
        /\ Served(t, "send_message", room_id, TRUE,
                  _handle_send_message_raising(Ctx, sock[t].ghost, room_id,
                                               opCount + 1, fail_at))

ReqAddReaction ==
    \E t \in Sockets, room_id \in ReqRooms, message_id \in MessageIds :
        Served(t, "add_reaction", room_id, FALSE,
               _handle_add_reaction(Ctx, sock[t].ghost, room_id, message_id, Emoji))

ReqRemoveReaction ==
    \E t \in Sockets, room_id \in ReqRooms, message_id \in MessageIds :
        Served(t, "remove_reaction", room_id, FALSE,
               _handle_remove_reaction(Ctx, sock[t].ghost, room_id, message_id, Emoji))

ReqCreateRoom ==
    \E t \in Sockets :
        /\ SecondRoom \notin DOMAIN store.rooms
        /\ Served(t, "create_room", SecondRoom, FALSE,
                  _handle_create_room(Ctx, sock[t].ghost, SecondRoom))

ReqPing ==
    \E t \in Sockets :
        Served(t, "ping", NoId, FALSE, _handle_ping(Ctx, sock[t].ghost))

\* an envelope whose type is none of the handled ones, or is missing
ReqUnknown ==
    \E t \in Sockets :
        Served(t, "unknown", NoId, FALSE, handle_message_unknown(Ctx, sock[t].ghost))

\* what happens beside the requests leaves no request in the history
Beside ==
    /\ sess' = [sess EXCEPT !.last = NoHandled]
    /\ UNCHANGED <<flight, notSess>>

\* a heartbeat is delivered on the registered socket
ReqHeartbeat ==
    /\ opCount < MaxReqOps
    /\ opCount' = opCount + 1
    /\ \E t \in Sockets :
         /\ hb[t] = "running"
         /\ sock[t].ghost \in DOMAIN ws.active_connections
         /\ IF sock[t].ghost \in DOMAIN ws.active_connections
            THEN sock[ws.active_connections[sock[t].ghost]].state = "open"
            ELSE FALSE
         /\ \E c \in {heartbeat_pass(Ctx, sock[t].ghost)} :
              /\ Apply(c)
              /\ sess' = [sess EXCEPT !.last =
                             [NoHandled EXCEPT !.type = "heartbeat",
                                               !.ghost = sock[t].ghost,
                                               !.registered = TRUE,
                                               !.task = t,
                                               !.out = c.out]]
    /\ UNCHANGED <<handler, flight, notSess>>

ReqClientClose ==
    /\ \E t \in Sockets :
         /\ sock[t].state = "open"
         /\ sock' = [sock EXCEPT ![t].state = "closed", ![t].client_closed = TRUE]
    /\ Beside
    /\ UNCHANGED <<store, ws, hb, handler, opCount>>

\* receive_json raises on the closed socket; the finally block disconnects
ReqExit ==
    /\ \E t \in Sockets :
         /\ handler[t] = "loop"
         /\ sock[t].state = "closed"
         /\ Apply(disconnect(Ctx, sock[t].ghost))
         /\ handler' = [handler EXCEPT ![t] = "done"]
    /\ sess' = [sess EXCEPT !.last = NoHandled]
    /\ UNCHANGED <<opCount, flight, notSess>>

\* seconds of the lease of users:{g} pass
ReqLeaseRuns ==
    /\ \E g \in DOMAIN store.users :
         /\ store.users[g].lease = "full"
         /\ store' = [store EXCEPT !.users[g].lease = "part"]
    /\ Beside
    /\ UNCHANGED <<ws, sock, hb, handler, opCount>>

\* the lease of users:{g} ends
ReqSessionExpires ==
    /\ \E g \in DOMAIN store.users :
         /\ store.users[g].lease = "part"
         /\ store' = [store EXCEPT !.users = Drop(@, g)]
    /\ Beside
    /\ UNCHANGED <<ws, sock, hb, handler, opCount>>

ReqNext ==
    \/ ReqJoinRoom
    \/ ReqLeaveRoom
    \/ ReqSendMessage
    \/ ReqSendMessageRaising
    \/ ReqAddReaction
    \/ ReqRemoveReaction
    \/ ReqCreateRoom
    \/ ReqPing
    \/ ReqUnknown
    \/ ReqHeartbeat
    \/ ReqClientClose
    \/ ReqExit
    \/ ReqLeaseRuns
    \/ ReqSessionExpires

ReqSpec == ReqInit /\ [][ReqNext]_vars

\* how many envelopes of the type the ghost was sent
Delivered(out, ghost_id, type) ==
    Cardinality({i \in DOMAIN out : out[i] = [to |-> ghost_id, type |-> type]})

\* the event a handled request broadcasts to its room
EventOf(type) == IF type = "send_message" THEN "new_message" ELSE "message_reaction"

\* the step of a send_message or reaction request that got to its broadcast
Broadcasts ==
    /\ opCount' # opCount
    /\ sess'.last.type \in {"send_message", "add_reaction", "remove_reaction"}
    /\ sess'.last.member
    /\ ~sess'.last.store_down

\* the members of the room whose registered socket is in the given state
Recipients(room_id, state) ==
    {m \in store.room_members[room_id] :
        IF m \in DOMAIN ws.active_connections
        THEN sock[ws.active_connections[m]].state = state
        ELSE FALSE}

\* C21: when an event is broadcast to a room, every registered member whose
\* send succeeds receives the event exactly once, whatever sends fail beside
\* it, and every registered member whose send fails is taken out of the
\* registry and receives nothing.
C21_BroadcastIsolation ==
    [][Broadcasts =>
         /\ \A m \in Recipients(sess'.last.room_id, "open") :
              /\ Delivered(sess'.last.out, m, EventOf(sess'.last.type)) = 1
              /\ m \in DOMAIN ws'.active_connections
         /\ \A m \in Recipients(sess'.last.room_id, "closed") :
              /\ Delivered(sess'.last.out, m, EventOf(sess'.last.type)) = 0
              /\ m \notin DOMAIN ws'.active_connections]_vars

\* a broadcast whose first send failed and whose second was delivered
C21_Witness ==
    /\ sess.last.type = "send_message"
    /\ sess.last.member
    /\ sess.last.ghost = 2
    /\ sess.last.room_id = FirstRoom
    /\ 1 \notin DOMAIN ws.active_connections
    /\ handler[1] = "loop"
    /\ Delivered(sess.last.out, 2, "ghost_left") = 1
    /\ Delivered(sess.last.out, 2, "new_message") = 1

\* C22: after an envelope whose type is none of the handled ones, or is
\* missing, the sender has been sent an error envelope and its connection is
\* still registered and open.
C22_UnhandledAnswered ==
    sess.last.type = "unknown" =>
        /\ Delivered(sess.last.out, sess.last.ghost, "error") >= 1
        /\ sess.last.ghost \in DOMAIN ws.active_connections
        /\ sock[sess.last.task].state = "open"

\* C23: when a store command raises while a send_message request is
\* handled, the sender is sent an error envelope and nobody is sent a
\* new_message event.
C23_StoreFailureSurfaced ==
    (sess.last.type = "send_message" /\ sess.last.store_down) =>
        /\ Delivered(sess.last.out, sess.last.ghost, "error") = 1
        /\ \A g \in Ghosts : Delivered(sess.last.out, g, "new_message") = 0

\* the store raised after the message was written, in a room with two members
C23_Witness ==
    /\ sess.last.type = "send_message"
    /\ sess.last.store_down
    /\ sess.last.member
    /\ store.messages # {}
    /\ store.room_members[sess.last.room_id] = Ghosts
    /\ sess.last.out = <<[to |-> sess.last.ghost, type |-> "error"]>>

\* the operations that count as activity of the ghost that performs them
ActivityTypes ==
    {"send_message", "join_room", "leave_room", "create_room", "add_reaction",
     "remove_reaction", "ping", "heartbeat"}

\* C27: every activity-producing operation that a ghost with a live session
\* performs, and that is not answered with an error, leaves the session with
\* its full lease.
C27_SlidingLease ==
    [][(/\ opCount' # opCount
        /\ sess'.last.type \in ActivityTypes
        /\ sess'.last.ghost \in DOMAIN store.users
        /\ Delivered(sess'.last.out, sess'.last.ghost, "error") = 0)
       => /\ sess'.last.ghost \in DOMAIN store'.users
          /\ store'.users[sess'.last.ghost].lease = "full"]_vars

\* the events that are broadcast to a room
RoomEvents == {"new_message", "message_reaction", "ghost_joined"}

\* C28: a send_message, join_room or reaction request of a ghost whose
\* session is absent from the store while its socket is registered leaves the
\* store as it was and sends no room event to anybody.
C28_AbsentSessionNotServed ==
    [][(/\ opCount' # opCount
        /\ sess'.last.type \in {"send_message", "join_room", "add_reaction",
                                "remove_reaction"}
        /\ sess'.last.registered
        /\ sess'.last.ghost \notin DOMAIN store.users)
       => /\ store' = store
          /\ \A g \in Ghosts, e \in RoomEvents : Delivered(sess'.last.out, g, e) = 0]_vars

(***************************************************************************)
(* The task of start_cleanup_task: it loops over _perform_cleanup and a    *)
(* sleep while self.running holds, beside the expiry of keys, and may be   *)
(* stopped or cancelled at any time.                                       *)
(***************************************************************************)
LoopFrame == UNCHANGED <<store, last, opCount, notPurge>>

\* main.py creates the task once; a call that finds self.running set returns
LoopStart ==
    /\ engine.task = "none"
    /\ engine' = IF engine.running THEN [engine EXCEPT !.task = "returned"]
                 ELSE [engine EXCEPT !.running = TRUE, !.task = "alive"]
    /\ LoopFrame

\* stop_cleanup_task
LoopStop ==
    /\ engine.running
    /\ engine' = [engine EXCEPT !.running = FALSE]
    /\ LoopFrame

\* CancelledError is raised at the await the task is at
LoopCancel ==
    /\ engine.task = "alive"
    /\ engine' = [engine EXCEPT !.task = "cancelled"]
    /\ LoopFrame

\* while self.running: the sleep is over and the next cycle begins
LoopBegin ==
    /\ engine.task = "alive"
    /\ engine.running
    /\ BeginCycle(1 - engine.turn)

\* while self.running fails: the task returns
LoopReturn ==
    /\ engine.task = "alive"
    /\ engine.at = "sleep"
    /\ ~engine.running
    /\ engine' = [engine EXCEPT !.task = "returned"]
    /\ LoopFrame

\* the sub-steps of the cycle the task is in
LoopCycle ==
    /\ engine.task = "alive"
    /\ \/ CycleOrphanedRooms
       \/ CycleEmptySets
       \/ CycleOrphanedReactions

LoopTask == LoopBegin \/ LoopReturn \/ LoopCycle

LoopNext ==
    \/ LoopStart
    \/ LoopStop
    \/ LoopCancel
    \/ LoopTask
    \/ PurgeExpire

\* the event loop runs a task that can run, and a sleep ends
LoopSpec == PurgeInit /\ [][LoopNext]_vars /\ WF_vars(LoopTask)

\* C31: once the cleanup task is started, after every cycle, whether it
\* failed or not, another cycle is eventually attempted, unless the task is
\* stopped or cancelled.
C31_NextCycleAttempted ==
    \A k \in {0, 1} :
        [](/\ engine.task # "none"
           /\ engine.at = "sleep"
           /\ engine.turn = k
           => <>(\/ engine.turn # k
                 \/ ~engine.running
                 \/ engine.task = "cancelled"))

\* the task is alive after a second cycle that failed at its first call
C31_Witness ==
    /\ engine.task = "alive"
    /\ engine.running
    /\ engine.at = "sleep"
    /\ engine.turn = 0
    /\ engine.failed = "cleanup_expired_data"

(***************************************************************************)
(* The same requests when a third identity is connected: ghost 1 and the   *)
(* third ghost are connected and in the public room, and the direct room   *)
(* of ghosts 1 and 2 exists.                                               *)
(***************************************************************************)
Third == 3

\* the ghost whose endpoint runs on socket t
GhostOn(t) == IF t = 1 THEN 1 ELSE Third

DirectInit ==
    /\ PowStart
    /\ SessStart
    /\ EngineStart
    /\ store = join_room(join_room(
                   create_ghost_session(create_ghost_session(create_ghost_session(
                       create_private_room(create_room(EmptyStore, FirstRoom, TRUE), 1, 2),
                       1), 2), Third),
                   1, FirstRoom), Third, FirstRoom)
    /\ last = NoOp
    /\ trail = [r \in RoomIds |-> NoTrail]
    /\ createdPublic = {FirstRoom}
    /\ createdDirect = {[pair |-> {1, 2}, first |-> 1, id |-> DmRoomId(1, 2)]}
    /\ opCount = 0
    /\ task = [g \in Ghosts |-> IdleTask]
    /\ ws = [active_connections |-> [g \in {1, Third} |-> IF g = 1 THEN 1 ELSE 2],
             ghost_rooms |-> [g \in {1, Third} |-> {FirstRoom}],
             heartbeat_tasks |-> [g \in {1, Third} |-> IF g = 1 THEN 1 ELSE 2]]
    /\ sock = [t \in Sockets |->
                 IF t \in {1, 2}
                 THEN [ghost |-> GhostOn(t), state |-> "open", client_closed |-> FALSE]
                 ELSE NoSock]
    /\ hb = [t \in Sockets |-> IF t \in {1, 2} THEN "running" ELSE "none"]
    /\ handler = [t \in Sockets |-> IF t \in {1, 2} THEN "loop" ELSE "idle"]
    /\ connLast = NoConnect
    /\ hist = [left |-> [g \in Ghosts |-> [done |-> FALSE, member_of |-> {}]],
               of |-> [t \in Sockets |-> NoHist]]

DirectSpec == DirectInit /\ [][ReqNext]_vars

\* C32: the members of a direct room, in the store and in the room caches,
\* are among the two ghosts it was created for.
C32_DirectRoomTwoParty ==
    \A d \in createdDirect :
        /\ store.room_members[d.id] \subseteq d.pair
        /\ \A g \in DOMAIN ws.ghost_rooms : d.id \in ws.ghost_rooms[g] => g \in d.pair

\* C33: a join_room request that is not answered with an error adds the room
\* to the ghost's cached rooms and the ghost to the room's members, and leaves
\* the ghost's membership of every other room, cached and stored, as it was.
C33_JoinOnlyAdds ==
    [][(/\ opCount' # opCount
        /\ sess'.last.type = "join_room"
        /\ Delivered(sess'.last.out, sess'.last.ghost, "error") = 0)
       => LET g == sess'.last.ghost
              room_id == sess'.last.room_id
          IN  /\ room_id \in cached_rooms([ws |-> ws'], g)
              /\ g \in store'.room_members[room_id]
              /\ \A r \in RoomIds \ {room_id} :
                   /\ (r \in cached_rooms([ws |-> ws'], g)) = (r \in cached_rooms(Ctx, g))
                   /\ (g \in store'.room_members[r]) = (g \in store.room_members[r])]_vars

(***************************************************************************)
(* The same requests while the store loses memberships behind the          *)
(* registry's back: the TTL of a membership set ends, or a ghost is        *)
(* destroyed over REST while its socket stays registered.                  *)
(***************************************************************************)
\* the TTL of room_members:{r} ends
ReqMembersExpire ==
    /\ \E r \in store.members_ttl : store' = redis_del_members(store, r)
    /\ Beside
    /\ UNCHANGED <<ws, sock, hb, handler, opCount>>

\* POST /api/ghost/{ghost_id}/destroy
ReqDestroy ==
    /\ \E ghost_id \in DOMAIN store.users : store' = delete_ghost_data(store, ghost_id)
    /\ Beside
    /\ UNCHANGED <<ws, sock, hb, handler, opCount>>

StaleNext ==
    \/ ReqNext
    \/ ReqMembersExpire
    \/ ReqDestroy

StaleSpec == ReqInit /\ [][StaleNext]_vars

\* C34: a message is appended to a room's list only when its sender is in the
\* room's membership set in the store at that time.
C34_MessagesFromMembers ==
    [][(/\ opCount' # opCount
        /\ sess'.last.type = "send_message"
        /\ store'.room_messages[sess'.last.room_id]
              # store.room_messages[sess'.last.room_id])
       => sess'.last.ghost \in store.room_members[sess'.last.room_id]]_vars

\* C35: the destruction of a ghost leaves every other ghost's session, room
\* memberships and messages as they were.
C35_DestructionTouchesOnlyOwn ==
    [][(opCount' # opCount /\ last'.op = "destroy")
       => \A b \in Ghosts \ {last'.ghost} :
            /\ (b \in DOMAIN store.users) = (b \in DOMAIN store'.users)
            /\ (b \in store.active_users) = (b \in store'.active_users)
            /\ \A r \in RoomIds :
                 (b \in store.room_members[r]) = (b \in store'.room_members[r])
            /\ \A m \in store.messages :
                 m.sender = b =>
                    /\ m \in store'.messages
                    /\ (m.id \in get_room_messages(store, m.room_id))
                          = (m.id \in get_room_messages(store', m.room_id))]_vars

\* C36: when joins and leaves of a room interleave, the deletion of the room
\* by the leave of its last member takes no joiner's membership with it, and
\* the record of a deleted room is not written again by a join or leave that
\* was in flight.
C36_LeaveDeletionNoRace ==
    [][\A r \in CreatedIds :
         /\ (r \in DOMAIN store.rooms /\ r \notin DOMAIN store'.rooms)
               => store.room_members[r] = {}
         /\ r \notin DOMAIN store.rooms => r \notin DOMAIN store'.rooms]_vars

(***************************************************************************)
(* The session key under concurrent callers: update_ghost_activity reads   *)
(* the session and writes it back at two awaits, delete_ghost_data reads   *)
(* its key lists at four awaits and then executes its pipeline.  The task  *)
(* of slot g touches the session of ghost g or destroys any ghost.         *)
(***************************************************************************)
MaxTouchOps == 3

\* what the four reads of delete_ghost_data return at the time they run
reaction_keys(s) == {<<t[1], t[2]>> : t \in s.reactions}

display_keys(s) == {<<t[1], t[2]>> : t \in s.reaction_names}

\* KEYS *{ghost_id}*: the session key and the keys of the ghost's direct rooms
ghost_keys(s, ghost_id) ==
    LET named == {r \in RoomIds : names_ghost(r, ghost_id)}
    IN  [users |-> ghost_id \in DOMAIN s.users,
         rooms |-> named \cap DOMAIN s.rooms,
         room_members |-> {r \in named : s.room_members[r] # {}},
         room_messages |-> {r \in named : s.room_messages[r] # <<>>},
         messages |-> {m \in s.messages : m.room_id \in named}]

\* pipeline.execute(): the queued commands run together on the store as it
\* is now, with the keys that the reads returned
pipeline_execute(s, ghost_id, read) ==
    [s EXCEPT
        !.reactions = {t \in @ : ~(t[3] = ghost_id /\ <<t[1], t[2]>> \in read.reaction_keys)},
        !.reaction_names =
            {t \in @ : ~(t[3] = ghost_id /\ <<t[1], t[2]>> \in read.display_keys)},
        !.users = IF read.ghost_keys.users THEN [g \in (DOMAIN @) \ {ghost_id} |-> @[g]]
                  ELSE @,
        !.rooms = [r \in (DOMAIN @) \ read.ghost_keys.rooms |-> @[r]],
        !.rooms_ttl = @ \ read.ghost_keys.rooms,
        !.room_messages = [r \in DOMAIN @ |->
                              IF r \in read.ghost_keys.room_messages THEN <<>> ELSE @[r]],
        !.messages = @ \ read.ghost_keys.messages,
        !.active_users = @ \ {ghost_id},
        !.room_members = [r \in DOMAIN @ |->
                             IF r \in read.ghost_keys.room_members THEN {}
                             ELSE IF r \in read.all_rooms THEN @[r] \ {ghost_id}
                             ELSE @[r]],
        !.members_ttl = {r \in @ : /\ r \notin read.ghost_keys.room_members
                                    /\ ~(r \in read.all_rooms
                                         /\ s.room_members[r] \ {ghost_id} = {})}]

NoRead == [reaction_keys |-> {}, display_keys |-> {}, all_rooms |-> {},
           ghost_keys |-> [users |-> FALSE, rooms |-> {}, room_members |-> {},
                           room_messages |-> {}, messages |-> {}]]

touchFrame == <<last, trail, createdPublic, createdDirect, notRace>>

\* a call begins in an idle slot
Begins(h) ==
    /\ opCount < MaxTouchOps
    /\ task[h].pc = "idle"
    /\ opCount' = opCount + 1

\* update_ghost_activity, lines 67-70: GET of the session
TaskTouchGet ==
    /\ \E g \in Ghosts :
         /\ Begins(g)
         /\ task' = [task EXCEPT ![g] =
                IF g \in DOMAIN store.users
                THEN [pc |-> "touch_setex", session_data |-> store.users[g]]
                ELSE IdleTask]
    /\ UNCHANGED <<store, touchFrame>>

\* update_ghost_activity, lines 71-78: SETEX of what was read, with a new
\* last_activity
TaskTouchSetex ==
    /\ \E g \in Ghosts :
         /\ task[g].pc = "touch_setex"
         /\ store' = [store EXCEPT !.users =
                Put(@, g, [task[g].session_data EXCEPT !.last_activity = @ + 1,
                                                       !.lease = "full"])]
         /\ Finish(g)
    /\ UNCHANGED <<touchFrame, opCount>>

\* delete_ghost_data, line 311: KEYS reactions:*
TaskDestroyKeysReactions ==
    /\ \E h \in Ghosts, ghost_id \in Ghosts :
         /\ Begins(h)
         /\ task' = [task EXCEPT ![h] =
                [pc |-> "destroy_display_keys", ghost_id |-> ghost_id,
                 read |-> [NoRead EXCEPT !.reaction_keys = reaction_keys(store)]]]
    /\ UNCHANGED <<store, touchFrame>>

\* delete_ghost_data, line 316: KEYS reaction_names:*
TaskDestroyKeysNames ==
    /\ \E h \in Ghosts :
         /\ task[h].pc = "destroy_display_keys"
         /\ task' = [task EXCEPT ![h].pc = "destroy_ghost_keys",
                                 ![h].read.display_keys = display_keys(store)]
    /\ UNCHANGED <<store, touchFrame, opCount>>

\* delete_ghost_data, line 320: KEYS *{ghost_id}*
TaskDestroyKeysGhost ==
    /\ \E h \in Ghosts :
         /\ task[h].pc = "destroy_ghost_keys"
         /\ task' = [task EXCEPT ![h].pc = "destroy_all_rooms",
                                 ![h].read.ghost_keys = ghost_keys(store, task[h].ghost_id)]
    /\ UNCHANGED <<store, touchFrame, opCount>>

\* delete_ghost_data, line 326: SMEMBERS all_rooms
TaskDestroySmembers ==
    /\ \E h \in Ghosts :
         /\ task[h].pc = "destroy_all_rooms"
         /\ task' = [task EXCEPT ![h].pc = "destroy_execute",
                                 ![h].read.all_rooms = store.all_rooms]
    /\ UNCHANGED <<store, touchFrame, opCount>>

\* delete_ghost_data, line 330
TaskDestroyExecute ==
    /\ \E h \in Ghosts :
         /\ task[h].pc = "destroy_execute"
         /\ store' = pipeline_execute(store, task[h].ghost_id, task[h].read)
         /\ Finish(h)
    /\ UNCHANGED <<touchFrame, opCount>>

TouchNext ==
    \/ TaskTouchGet
    \/ TaskTouchSetex
    \/ TaskDestroyKeysReactions
    \/ TaskDestroyKeysNames
    \/ TaskDestroyKeysGhost
    \/ TaskDestroySmembers
    \/ TaskDestroyExecute

TouchSpec == PurgeInit /\ [][TouchNext]_vars

\* C37: when the touches and destructions of the ghosts' sessions have all
\* completed, a session record exists only for a ghost that is in the
\* active-identity set: a destroyed session has not come back.
C37_DestroyedStaysDestroyed ==
    Quiescent => \A g \in DOMAIN store.users : g \in store.active_users

(***************************************************************************)
(* The reaction keys under concurrent callers: add_message_reaction and    *)
(* remove_message_reaction of the two ghosts on one message and emoji,     *)
(* interleaved at their awaited commands.                                  *)
(***************************************************************************)
MaxReactOps == 3

ReactMessage == 1

\* add_message_reaction, line 422: SADD reactions:{message_id}:{emoji}
TaskAddSadd ==
    /\ \E g \in Ghosts :
         /\ opCount < MaxReactOps
         /\ task[g].pc = "idle"
         /\ store' = [store EXCEPT !.reactions = @ \cup {<<ReactMessage, Emoji, g>>}]
         /\ task' = [task EXCEPT ![g] = [pc |-> "add_hset"]]
    /\ opCount' = opCount + 1
    /\ UNCHANGED touchFrame

\* add_message_reaction, line 431: HSET reaction_names:{message_id}:{emoji}
TaskAddHset ==
    /\ \E g \in Ghosts :
         /\ task[g].pc = "add_hset"
         /\ store' = [store EXCEPT !.reaction_names = @ \cup {<<ReactMessage, Emoji, g>>}]
         /\ Finish(g)
    /\ UNCHANGED <<touchFrame, opCount>>

\* remove_message_reaction, line 446: SREM
TaskRemoveSrem ==
    /\ \E g \in Ghosts :
         /\ opCount < MaxReactOps
         /\ task[g].pc = "idle"
         /\ store' = [store EXCEPT !.reactions = @ \ {<<ReactMessage, Emoji, g>>}]
         /\ task' = [task EXCEPT ![g] = [pc |-> "remove_hdel"]]
    /\ opCount' = opCount + 1
    /\ UNCHANGED touchFrame

\* remove_message_reaction, line 447: HDEL
TaskRemoveHdel ==
    /\ \E g \in Ghosts :
         /\ task[g].pc = "remove_hdel"
         /\ store' = [store EXCEPT !.reaction_names = @ \ {<<ReactMessage, Emoji, g>>}]
         /\ task' = [task EXCEPT ![g] = [pc |-> "remove_scard"]]
    /\ UNCHANGED <<touchFrame, opCount>>

\* remove_message_reaction, lines 450-451: SCARD and the test of the count
TaskRemoveScard ==
    /\ \E g \in Ghosts :
         /\ task[g].pc = "remove_scard"
         /\ IF reactors(store, ReactMessage, Emoji) = {}
            THEN task' = [task EXCEPT ![g] = [pc |-> "remove_delete_set"]]
            ELSE Finish(g)
    /\ UNCHANGED <<store, touchFrame, opCount>>

\* remove_message_reaction, line 452: DEL of the reaction set
TaskRemoveDeleteSet ==
    /\ \E g \in Ghosts :
         /\ task[g].pc = "remove_delete_set"
         /\ store' = [store EXCEPT !.reactions =
                {t \in @ : ~(t[1] = ReactMessage /\ t[2] = Emoji)}]
         /\ task' = [task EXCEPT ![g] = [pc |-> "remove_delete_names"]]
    /\ UNCHANGED <<touchFrame, opCount>>

\* remove_message_reaction, line 453: DEL of the display-name hash
TaskRemoveDeleteNames ==
    /\ \E g \in Ghosts :
         /\ task[g].pc = "remove_delete_names"
         /\ store' = [store EXCEPT !.reaction_names =
                {t \in @ : ~(t[1] = ReactMessage /\ t[2] = Emoji)}]
         /\ Finish(g)
    /\ UNCHANGED <<touchFrame, opCount>>

ReactNext ==
    \/ TaskAddSadd
    \/ TaskAddHset
    \/ TaskRemoveSrem
    \/ TaskRemoveHdel
    \/ TaskRemoveScard
    \/ TaskRemoveDeleteSet
    \/ TaskRemoveDeleteNames

ReactSpec == PurgeInit /\ [][ReactNext]_vars

\* C38: when the add_message_reaction and remove_message_reaction calls have
\* all completed, the ghosts that have a display name for a message and emoji
\* are the ghosts of its reaction set.
C38_ReactionNamesConsistent ==
    Quiescent =>
        display_names(store, ReactMessage, Emoji) = reactors(store, ReactMessage, Emoji)

\* the ids of the records get_all_rooms returns: those of all_rooms whose
\* record exists
get_all_rooms(s) == {r \in s.all_rooms : r \in DOMAIN s.rooms}

\* C39: every public room whose record exists in the store is among the
\* rooms that get_all_rooms returns.
C39_PublicRoomsListed ==
    \A r \in DOMAIN store.rooms :
        store.rooms[r].is_public => r \in get_all_rooms(store)

(***************************************************************************)
(* disconnect on its own: the two ghosts are connected with any cached     *)
(* rooms (connect restores them from the store), their clients may have    *)
(* gone, and disconnect is called for a registered ghost.  Two rooms are   *)
(* enough for a disconnect to nest in itself and in the other ghost's.     *)
(***************************************************************************)
MaxDropOps == 2

DropRooms == {FirstRoom, DmRoomId(1, 2)}

RECURSIVE join_each(_, _, _)
\* join_room of the ghost for each room of the list
join_each(s, ghost_id, room_ids) ==
    IF room_ids = <<>> THEN s
    ELSE join_each(join_room(s, ghost_id, Head(room_ids)), ghost_id, Tail(room_ids))

DropInit ==
    /\ PowStart
    /\ SessStart
    /\ EngineStart
    /\ \E rooms \in [Ghosts -> SUBSET DropRooms] :
         /\ store = join_each(join_each(
                        create_ghost_session(create_ghost_session(
                            create_private_room(
                                create_room(EmptyStore, FirstRoom, TRUE), 1, 2),
                            1), 2),
                        1, SeqOf(rooms[1])), 2, SeqOf(rooms[2]))
         /\ ws = [active_connections |-> [g \in Ghosts |-> g],
                  ghost_rooms |-> rooms,
                  heartbeat_tasks |-> [g \in Ghosts |-> g]]
    /\ last = NoOp
    /\ trail = [r \in RoomIds |-> NoTrail]
    /\ createdPublic = {FirstRoom}
    /\ createdDirect = {[pair |-> {1, 2}, first |-> 1, id |-> DmRoomId(1, 2)]}
    /\ opCount = 0
    /\ task = [g \in Ghosts |-> IdleTask]
    /\ sock = [t \in Sockets |->
                 IF t \in Ghosts
                 THEN [ghost |-> t, state |-> "open", client_closed |-> FALSE]
                 ELSE NoSock]
    /\ hb = [t \in Sockets |-> IF t \in Ghosts THEN "running" ELSE "none"]
    /\ handler = [t \in Sockets |-> IF t \in Ghosts THEN "loop" ELSE "idle"]
    /\ connLast = NoConnect
    /\ hist = [left |-> [g \in Ghosts |-> [done |-> FALSE, member_of |-> {}]],
               of |-> [t \in Sockets |-> NoHist]]

dropFrame == <<trail, createdPublic, createdDirect, task, powVars, handler,
               connLast, hist, sessVars, engine>>

\* the client of a socket goes away: every later send on it fails
DropClientClose ==
    /\ \E t \in Sockets :
         /\ sock[t].state = "open"
         /\ sock' = [sock EXCEPT ![t].state = "closed", ![t].client_closed = TRUE]
    /\ last' = NoOp
    /\ UNCHANGED <<store, ws, hb, opCount, dropFrame>>

\* disconnect(ghost_id) runs to its return; ret counts its leave_room calls
DropDisconnect ==
    /\ opCount < MaxDropOps
    /\ opCount' = opCount + 1
    /\ \E ghost_id \in DOMAIN ws.active_connections :
         \E c \in {disconnect(Ctx, ghost_id)} :
            /\ Apply(c)
            /\ last' = [op |-> "disconnect", ghost |-> ghost_id, room |-> NoId,
                        ret |-> Len(c.calls)]
    /\ UNCHANGED dropFrame

DropNext ==
    \/ DropClientClose
    \/ DropDisconnect

DropSpec == DropInit /\ [][DropNext]_vars

\* the leave_room calls a ghost with n cached rooms can cause: each nested
\* disconnect of the ghost finds one room less
Triangle(n) == (n * (n + 1)) \div 2

RECURSIVE LeaveBound(_)
LeaveBound(ghosts) ==
    IF ghosts = <<>> THEN 0
    ELSE Triangle(Cardinality(ws.ghost_rooms[Head(ghosts)])) + LeaveBound(Tail(ghosts))

\* the registered ghosts, other than g, that share a room of g's cache and
\* whose socket is closed: the sends to them fail
FailingPeers(g) ==
    {m \in DOMAIN ws.active_connections \ {g} :
        /\ sock[ws.active_connections[m]].state = "closed"
        /\ \E r \in cached_rooms(Ctx, g) : m \in store.room_members[r]}

\* C40: disconnect(g) returns after a bounded number of nested calls, also
\* when every send fails, and at its return g and every ghost a send to which
\* failed are out of the registry.
C40_DisconnectTerminates ==
    [][(opCount' # opCount /\ last'.op = "disconnect")
       => /\ last'.ret <= LeaveBound(SeqOf(DOMAIN ws.ghost_rooms))
          /\ last'.ghost \notin DOMAIN ws'.active_connections
          /\ last'.ghost \notin DOMAIN ws'.ghost_rooms
          /\ \A m \in FailingPeers(last'.ghost) :
               m \notin DOMAIN ws'.active_connections]_vars

\* a disconnect with every send failing that nested in itself and took the
\* other ghost with it
C40_Witness ==
    /\ last.op = "disconnect"
    /\ last.ret >= 4
    /\ \A t \in Ghosts : sock[t].client_closed
    /\ opCount = 1
    /\ DOMAIN ws.active_connections = {}

====
